---- MODULE Spec2Model ----
(***************************************************************************)
(* Model of the Data Alchemist dashboard (src/src/app/dashboard/page.tsx): *)
(* the field normalizer, the scalar parsers, the row and dataset           *)
(* validators, the rule checks and the mutation / fix handlers of the      *)
(* Dashboard component.                                                    *)
(*                                                                         *)
(* JavaScript strings are TLA+ strings (TLC evaluates Len, SubSeq and \o   *)
(* on them), JavaScript values are tagged records, a row object is the     *)
(* sequence of its (key, value) pairs in insertion order.                  *)
(***************************************************************************)
EXTENDS Integers, Sequences, FiniteSets, TLC

VARIABLES
    sheets,             \* useState sheets: entity -> [headers, jsonData]
    rules,              \* useState rules
    validationErrors,   \* useState validationErrors (the published list)
    validationProgress, \* useState validationProgress
    isLoading,          \* useState isLoading
    isFixingWithAI,     \* useState isFixingWithAI
    localStorage,       \* window.localStorage, keys upload:<entity>
    effectPending,      \* the validation effect is scheduled (deps changed)
    fixCall,            \* the autoFixErrors call in flight: its closure
    now,                \* Date.now(): one tick for each user event
    arg,                \* argument of the parser under study; uploadedEntities
    ret                 \* what the parser returned for arg; uploadedFile

vars == <<sheets, rules, validationErrors, validationProgress, isLoading,
          isFixingWithAI, localStorage, effectPending, fixCall, now, arg, ret>>

-----------------------------------------------------------------------------
(* JavaScript values *)

Undef == [t |-> "undef"]
Null == [t |-> "null"]
NaN == [t |-> "nan"]
Num(n) == [t |-> "num", n |-> n]
Str(s) == [t |-> "str", s |-> s]
Arr(a) == [t |-> "arr", a |-> a]
Obj(o) == [t |-> "obj", o |-> o]

-----------------------------------------------------------------------------
(* String primitives *)

Char(s, i) == IF i >= 1 /\ i <= Len(s) THEN SubSeq(s, i, i) ELSE ""

Digits == "0123456789"
LowerLetters == "abcdefghijklmnopqrstuvwxyz"
UpperLetters == "ABCDEFGHIJKLMNOPQRSTUVWXYZ"

\* The characters of a string, as a set of one-character strings.
CharsOf(s) == {SubSeq(s, i, i) : i \in 1..Len(s)}

\* The position of a character in a string that holds it.
IndexOf(s, c) == CHOOSE i \in 1..Len(s) : SubSeq(s, i, i) = c

IsDigit(c) == c \in {"0", "1", "2", "3", "4", "5", "6", "7", "8", "9"}

\* White space as String.prototype.trim, Number() and JSON.parse skip it.
IsWs(c) == c \in {" ", "\n", "\t", "\r"}

RECURSIVE MapChars(_, _, _)
\* s with every character c at position >= i replaced by the string F(c).
MapChars(F(_), s, i) ==
    IF i > Len(s) THEN "" ELSE F(SubSeq(s, i, i)) \o MapChars(F, s, i + 1)

RECURSIVE FirstNonWs(_, _)
FirstNonWs(s, i) ==
    IF i <= Len(s) /\ IsWs(SubSeq(s, i, i)) THEN FirstNonWs(s, i + 1) ELSE i

RECURSIVE LastNonWs(_, _)
LastNonWs(s, i) ==
    IF i >= 1 /\ IsWs(SubSeq(s, i, i)) THEN LastNonWs(s, i - 1) ELSE i

trim(s) == SubSeq(s, FirstNonWs(s, 1), LastNonWs(s, Len(s)))

startsWith(s, p) == Len(s) >= Len(p) /\ SubSeq(s, 1, Len(p)) = p
endsWith(s, p) == Len(s) >= Len(p) /\ SubSeq(s, Len(s) - Len(p) + 1, Len(s)) = p
includes(s, p) == \E i \in 1..(Len(s) - Len(p) + 1) : SubSeq(s, i, i + Len(p) - 1) = p

RECURSIVE SplitFrom(_, _, _, _)
\* The pieces of s from position i on, cur being the piece collected so far.
SplitFrom(s, sep, i, cur) ==
    IF i > Len(s) THEN <<cur>>
    ELSE IF SubSeq(s, i, i) = sep THEN <<cur>> \o SplitFrom(s, sep, i + 1, "")
    ELSE SplitFrom(s, sep, i + 1, cur \o SubSeq(s, i, i))

\* String.prototype.split on a one-character separator.
split(s, sep) == SplitFrom(s, sep, 1, "")

RECURSIVE join(_, _)
\* Array.prototype.join on an array of strings.
join(xs, sep) ==
    IF Len(xs) = 0 THEN ""
    ELSE IF Len(xs) = 1 THEN xs[1]
    ELSE xs[1] \o sep \o join(Tail(xs), sep)

RECURSIVE NatToStr(_)
NatToStr(n) ==
    IF n < 10 THEN SubSeq(Digits, n + 1, n + 1)
    ELSE NatToStr(n \div 10) \o SubSeq(Digits, (n % 10) + 1, (n % 10) + 1)

\* String(n) of an integer number.
IntToStr(n) == IF n < 0 THEN "-" \o NatToStr(0 - n) ELSE NatToStr(n)

RECURSIVE DigitsValue(_, _, _)
DigitsValue(s, i, acc) ==
    IF i > Len(s) THEN acc
    ELSE DigitsValue(s, i + 1, acc * 10 + IndexOf(Digits, SubSeq(s, i, i)) - 1)

AllDigits(s) == Len(s) > 0 /\ \A i \in 1..Len(s) : IsDigit(SubSeq(s, i, i))

\* A trimmed numeric text without its sign.
Unsigned(t) == IF Len(t) > 0 /\ SubSeq(t, 1, 1) \in {"+", "-"} THEN SubSeq(t, 2, Len(t)) ELSE t

\* Number(s) of a string: white space is trimmed, the empty string is 0, an
\* optionally signed run of decimal digits is its value, anything else NaN.
\* (Fractions, exponents, hex and Infinity are outside the modelled alphabet.)
NumberOfTrimmed(t) ==
    IF t = "" THEN Num(0)
    ELSE IF ~AllDigits(Unsigned(t)) THEN NaN
    ELSE IF SubSeq(t, 1, 1) = "-" THEN Num(0 - DigitsValue(Unsigned(t), 1, 0))
    ELSE Num(DigitsValue(Unsigned(t), 1, 0))

StringToNumber(s) == NumberOfTrimmed(trim(s))

RECURSIVE ToStr(_)
\* String(v)
ToStr(v) ==
    CASE v.t = "str" -> v.s
      [] v.t = "num" -> IntToStr(v.n)
      [] v.t = "nan" -> "NaN"
      [] v.t = "undef" -> "undefined"
      [] v.t = "null" -> "null"
      [] v.t = "bool" -> IF v.b THEN "true" ELSE "false"
      [] v.t = "obj" -> "[object Object]"
      [] v.t = "arr" ->
           join([i \in 1..Len(v.a) |->
                    IF v.a[i].t \in {"undef", "null"} THEN "" ELSE ToStr(v.a[i])], ",")

\* Number(v): a string and an array (through its String()) are parsed.
ToNumber(v) ==
    CASE v.t = "num" -> v
      [] v.t \in {"str", "arr"} -> StringToNumber(ToStr(v))
      [] v.t = "null" -> Num(0)
      [] v.t = "bool" -> IF v.b THEN Num(1) ELSE Num(0)
      [] OTHER -> NaN

isNaN(n) == n.t = "nan"

\* The relational operators on two Number() results: false when either is NaN.
NumLt(a, b) == a.t = "num" /\ b.t = "num" /\ a.n < b.n

\* ToBoolean(v)
Truthy(v) ==
    CASE v.t \in {"undef", "null", "nan"} -> FALSE
      [] v.t = "num" -> v.n # 0
      [] v.t = "str" -> v.s # ""
      [] v.t = "bool" -> v.b
      [] OTHER -> TRUE

-----------------------------------------------------------------------------
(* JSON.parse, on texts over the modelled alphabet: arrays, objects, integer *)
(* numbers, strings without escapes, true / false / null.                    *)

JsonFail == [ok |-> FALSE, v |-> Undef, next |-> 0]
JsonOk(v, next) == [ok |-> TRUE, v |-> v, next |-> next]

RECURSIVE DigitRunEnd(_, _)
\* The position after the run of digits of s that starts at i.
DigitRunEnd(s, i) == IF IsDigit(Char(s, i)) THEN DigitRunEnd(s, i + 1) ELSE i

RECURSIVE QuoteAt(_, _)
\* The position of the first double quote of s at or after i, 0 when none.
QuoteAt(s, i) ==
    IF i > Len(s) THEN 0 ELSE IF SubSeq(s, i, i) = "\"" THEN i ELSE QuoteAt(s, i + 1)

\* A number at i whose digits start at d.
JsonNumber(s, i, d) ==
    IF DigitRunEnd(s, d) = d THEN JsonFail
    ELSE IF Char(s, d) = "0" /\ DigitRunEnd(s, d) > d + 1 THEN JsonOk(Num(0), d + 1)
    ELSE JsonOk(StringToNumber(SubSeq(s, i, DigitRunEnd(s, d) - 1)), DigitRunEnd(s, d))

\* A string at i: its text runs to the next double quote.
JsonString(s, i) ==
    IF QuoteAt(s, i + 1) = 0 THEN JsonFail
    ELSE JsonOk(Str(SubSeq(s, i + 1, QuoteAt(s, i + 1) - 1)), QuoteAt(s, i + 1) + 1)

\* The literal text at i, standing for the value v.
JsonLiteral(s, i, text, v) ==
    IF i + Len(text) - 1 <= Len(s) /\ SubSeq(s, i, i + Len(text) - 1) = text
    THEN JsonOk(v, i + Len(text))
    ELSE JsonFail

RECURSIVE JsonValue(_, _), JsonElements(_, _, _), JsonMembers(_, _, _, _),
          JsonMemberValue(_, _, _, _)
JsonValue(s, i) ==
    CASE Char(s, i) = "[" ->
           IF Char(s, FirstNonWs(s, i + 1)) = "]"
           THEN JsonOk(Arr(<<>>), FirstNonWs(s, i + 1) + 1)
           ELSE JsonElements(s, <<>>, JsonValue(s, FirstNonWs(s, i + 1)))
      [] Char(s, i) = "{" ->
           IF Char(s, FirstNonWs(s, i + 1)) = "}"
           THEN JsonOk(Obj(<<>>), FirstNonWs(s, i + 1) + 1)
           ELSE JsonMembers(s, <<>>, JsonString(s, FirstNonWs(s, i + 1)),
                            Char(s, FirstNonWs(s, i + 1)) = "\"")
      [] Char(s, i) = "\"" -> JsonString(s, i)
      [] Char(s, i) = "-" -> JsonNumber(s, i, i + 1)
      [] IsDigit(Char(s, i)) -> JsonNumber(s, i, i)
      [] Char(s, i) = "t" -> JsonLiteral(s, i, "true", [t |-> "bool", b |-> TRUE])
      [] Char(s, i) = "f" -> JsonLiteral(s, i, "false", [t |-> "bool", b |-> FALSE])
      [] Char(s, i) = "n" -> JsonLiteral(s, i, "null", Null)
      [] OTHER -> JsonFail

\* The rest of an array after the element r: a comma and the next element, or
\* the closing bracket.
JsonElements(s, acc, r) ==
    IF ~r.ok THEN JsonFail
    ELSE CASE Char(s, FirstNonWs(s, r.next)) = "," ->
                JsonElements(s, Append(acc, r.v),
                             JsonValue(s, FirstNonWs(s, FirstNonWs(s, r.next) + 1)))
           [] Char(s, FirstNonWs(s, r.next)) = "]" ->
                JsonOk(Arr(Append(acc, r.v)), FirstNonWs(s, r.next) + 1)
           [] OTHER -> JsonFail

\* The rest of an object after the member key k (quoted tells that a string
\* started there): a colon and the value, then a comma and the next member, or
\* the closing brace.
JsonMembers(s, acc, k, quoted) ==
    IF ~quoted \/ ~k.ok \/ Char(s, FirstNonWs(s, k.next)) # ":" THEN JsonFail
    ELSE JsonMemberValue(s, acc, k.v.s,
                         JsonValue(s, FirstNonWs(s, FirstNonWs(s, k.next) + 1)))

\* The rest of an object after the value r of the member named key.
JsonMemberValue(s, acc, key, r) ==
    IF ~r.ok THEN JsonFail
    ELSE CASE Char(s, FirstNonWs(s, r.next)) = "," ->
                JsonMembers(s, Append(acc, [k |-> key, v |-> r.v]),
                            JsonString(s, FirstNonWs(s, FirstNonWs(s, r.next) + 1)),
                            Char(s, FirstNonWs(s, FirstNonWs(s, r.next) + 1)) = "\"")
           [] Char(s, FirstNonWs(s, r.next)) = "}" ->
                JsonOk(Obj(Append(acc, [k |-> key, v |-> r.v])), FirstNonWs(s, r.next) + 1)
           [] OTHER -> JsonFail

\* JSON.parse(s): a value and nothing but white space after it; ok is FALSE
\* where JSON.parse throws a SyntaxError.
JSONparse(s) ==
    LET r == JsonValue(s, FirstNonWs(s, 1))
    IN  IF r.ok /\ FirstNonWs(s, r.next) = Len(s) + 1 THEN r ELSE JsonFail

-----------------------------------------------------------------------------
(* Field Normalizer *)

\* What toLowerCase and then replace(/[^a-z0-9]/g, '') leave of one character.
NormalizedChar(c) ==
    IF c \in CharsOf(UpperLetters)
    THEN SubSeq(LowerLetters, IndexOf(UpperLetters, c), IndexOf(UpperLetters, c))
    ELSE IF c \in CharsOf(LowerLetters) \/ IsDigit(c) THEN c
    ELSE ""

\* The field names the validators ask for and the column names of the modelled
\* record sets.
KnownNames ==
    {"id", "clientId", "clientID", "client_id", "workerId", "workerID", "worker_id",
     "taskId", "taskID", "task_id", "priorityLevel", "priority", "requestedTasks",
     "requestedTaskIDs", "availableSlots", "slots", "maxLoad", "maxLoadPerPhase",
     "skills", "workerSkills", "requiredSkills", "duration", "taskDuration",
     "preferredPhases", "phases", "maxConcurrent", "maxConcurrentTasks", "phase",
     "taskPhase", "dependencies", "dependsOn", "groupTag", "clientGroup", "workerGroup",
     "Priority", "Priority Level", "TaskID", "RequiredSkills", "Skills", "ID"}

\* name.toLowerCase().replace(/[^a-z0-9]/g, '') of every known name, computed
\* once.
NormalizedName == [name \in KnownNames |-> MapChars(NormalizedChar, name, 1)]

\* name.toLowerCase().replace(/[^a-z0-9]/g, '')
normalizeFieldName(name) ==
    IF name \in KnownNames THEN NormalizedName[name] ELSE MapChars(NormalizedChar, name, 1)

\* The positions of row (in key order) whose key normalizes to normalizedField.
MatchingKeys(row, normalizedField) ==
    {i \in 1..Len(row) : normalizeFieldName(row[i].k) = normalizedField}

Min(S) == CHOOSE x \in S : \A y \in S : x <= y

RECURSIVE getNormalizedValue(_, _), ValueOfMatch(_, _, _)
getNormalizedValue(row, fieldVariations) ==
    IF Len(fieldVariations) = 0 THEN Undef
    ELSE ValueOfMatch(row, fieldVariations,
                      MatchingKeys(row, normalizeFieldName(Head(fieldVariations))))

\* The inner loop of getNormalizedValue: the first key among the matching ones
\* m returns its value, no match goes on to the next variation.
ValueOfMatch(row, fieldVariations, m) ==
    IF m # {} THEN row[Min(m)].v ELSE getNormalizedValue(row, Tail(fieldVariations))

-----------------------------------------------------------------------------
(* Scalar Parsers *)

\* error: null is written NoError; every error text of the code is non-empty
\* and the code tests errors by truthiness.
NoError == ""

\* Each element trimmed: map(s => s.trim()).
TrimAll(xs) == [i \in 1..Len(xs) |-> trim(xs[i])]

\* trimmed.startsWith(open) && trimmed.endsWith(close)
Enclosed(trimmed, open, close) == startsWith(trimmed, open) /\ endsWith(trimmed, close)

\* The try block of parseArrayString on what JSON.parse made of the text.
ParsedArray(parsed) ==
    IF ~parsed.ok THEN [result |-> <<>>, error |-> "Malformed JSON array."]
    ELSE IF parsed.v.t = "arr" THEN [result |-> [i \in 1..Len(parsed.v.a) |-> ToStr(parsed.v.a[i])], error |-> NoError]
    ELSE [result |-> <<>>, error |-> "Invalid array format."]

\* parseArrayString on a trimmed text, splitting at commas only.
ArrayOfTextAtCommas(trimmed) ==
    IF trimmed = "" THEN [result |-> <<>>, error |-> NoError]
    ELSE IF Enclosed(trimmed, "[", "]") THEN ParsedArray(JSONparse(trimmed))
    ELSE [result |-> SelectSeq(TrimAll(split(trimmed, ",")), LAMBDA s : s # ""),
          error |-> NoError]

\* parseArrayString on the trimmed text of a string value.
ArrayOfText(trimmed) ==
    IF trimmed = "" THEN [result |-> <<>>, error |-> NoError]
    ELSE IF Enclosed(trimmed, "[", "]") THEN ParsedArray(JSONparse(trimmed))
    ELSE [result |-> SelectSeq(TrimAll(split(MapChars(LAMBDA c : IF c = "\n" THEN "," ELSE c, trimmed, 1), ",")),
                               LAMBDA s : s # ""),
          error |-> NoError]

parseArrayString(value) ==
    IF value.t = "arr" THEN [result |-> [i \in 1..Len(value.a) |-> ToStr(value.a[i])], error |-> NoError]
    ELSE IF value.t # "str" THEN [result |-> <<>>, error |-> NoError]
    ELSE ArrayOfText(trim(value.s))

\* The elements pushed to phases: those whose Number() is not NaN.
PhasesOf(ns) ==
    [i \in 1..Len(SelectSeq(ns, LAMBDA n : ~isNaN(n))) |-> SelectSeq(ns, LAMBDA n : ~isNaN(n))[i].n]

\* The try block of parsePhaseString on what JSON.parse made of the text.
ParsedPhases(parsed) ==
    IF ~parsed.ok THEN [result |-> <<>>, error |-> "Malformed JSON array."]
    ELSE IF parsed.v.t # "arr" THEN [result |-> <<>>, error |-> "Invalid array format."]
    ELSE IF \E i \in 1..Len(parsed.v.a) : isNaN(ToNumber(parsed.v.a[i]))
    THEN [result |-> <<>>, error |-> "Contains non-numeric values."]
    ELSE [result |-> PhasesOf([i \in 1..Len(parsed.v.a) |-> ToNumber(parsed.v.a[i])]), error |-> NoError]

\* The range branch of parsePhaseString on the trimmed pieces around '-'.
PhaseRange(parts, start, end) ==
    IF Len(parts) = 2 /\ start.t = "num" /\ end.t = "num" /\ start.n <= end.n
    THEN [result |-> [i \in 1..(end.n - start.n + 1) |-> start.n + i - 1], error |-> NoError]
    ELSE [result |-> <<>>, error |-> "Invalid range format (e.g., \"1-5\")."]

\* The list branch of parsePhaseString on the trimmed, non-empty items.
PhaseList(items) ==
    IF \E i \in 1..Len(items) : isNaN(StringToNumber(items[i]))
    THEN [result |-> <<>>, error |-> "Contains non-numeric values or invalid format."]
    ELSE [result |-> [i \in 1..Len(items) |-> StringToNumber(items[i]).n], error |-> NoError]

\* parsePhaseString on the trimmed text of a string value.
PhasesOfText(trimmed) ==
    IF trimmed = "" THEN [result |-> <<>>, error |-> NoError]
    ELSE IF Enclosed(trimmed, "[", "]") THEN ParsedPhases(JSONparse(trimmed))
    ELSE IF includes(trimmed, "-")
    THEN PhaseRange(TrimAll(split(trimmed, "-")),
                    StringToNumber(TrimAll(split(trimmed, "-"))[1]),
                    StringToNumber(TrimAll(split(trimmed, "-"))[2]))
    ELSE PhaseList(SelectSeq(TrimAll(split(trimmed, ",")), LAMBDA s : s # ""))

parsePhaseString(value) ==
    IF value.t = "arr" THEN [result |-> PhasesOf([i \in 1..Len(value.a) |-> ToNumber(value.a[i])]), error |-> NoError]
    ELSE IF value.t # "str" THEN [result |-> <<>>, error |-> NoError]
    ELSE PhasesOfText(trim(value.s))

\* The try block of parseJsonString on what JSON.parse made of the text.
ParsedObject(parsed) ==
    IF ~parsed.ok THEN [result |-> Null, error |-> "Malformed JSON object."]
    ELSE IF parsed.v.t = "obj" THEN [result |-> parsed.v, error |-> NoError]
    ELSE [result |-> Null, error |-> "Value is not a valid JSON object."]

\* parseJsonString on the trimmed text of a string value.
ObjectOfText(trimmed) ==
    IF trimmed = "" THEN [result |-> Null, error |-> NoError]
    ELSE IF ~Enclosed(trimmed, "{", "}")
    THEN [result |-> Null,
          error |-> "Value must be a valid JSON object (e.g., {\"key\":\"value\"})."]
    ELSE ParsedObject(JSONparse(trimmed))

parseJsonString(value) ==
    IF value.t = "obj" THEN [result |-> value, error |-> NoError]
    ELSE IF value.t # "str" THEN [result |-> Null, error |-> NoError]
    ELSE ObjectOfText(trim(value.s))

-----------------------------------------------------------------------------
(* Diagnostics *)

Entities == {"clients", "workers", "tasks"}

\* Object.keys(currentSheets): the insertion order of the sheets state.
EntityOrder == <<"clients", "workers", "tasks">>

\* A diagnostic whose id is stamped with the clock instead of being derived
\* from (entity, rowIndex, field, message) alone.
createErrorStamped(entity, rowIndex, field, message, level) ==
    [id |-> entity \o "-" \o IntToStr(rowIndex) \o "-" \o field \o "-" \o IntToStr(now),
     entity |-> entity, rowIndex |-> rowIndex, field |-> field, message |-> message,
     level |-> level, fixed |-> FALSE]

\* createError of validateRow and of validateAllData; fixed is absent (falsy)
\* on a fresh diagnostic.
createError(entity, rowIndex, field, message, level) ==
    [id |-> entity \o "-" \o IntToStr(rowIndex) \o "-" \o field \o "-" \o message,
     entity |-> entity, rowIndex |-> rowIndex, field |-> field,
     message |-> message, level |-> level, fixed |-> FALSE]

RECURSIVE Flatten(_)
\* The concatenation of a sequence of sequences (push(...xs), flatMap).
Flatten(xss) == IF Len(xss) = 0 THEN <<>> ELSE Head(xss) \o Flatten(Tail(xss))

\* One element when cond holds, none otherwise: if (cond) errors.push(e).
PushIf(cond, e) == IF cond THEN <<e>> ELSE <<>>

Range(xs) == {xs[i] : i \in 1..Len(xs)}

-----------------------------------------------------------------------------
(* Row Validator *)

\* if (error) errors.push(createError(field, error)) on the outcome of a parser.
ParseErrors(entity, rowIndex, field, parsed) ==
    PushIf(parsed.error # NoError, createError(entity, rowIndex, field, parsed.error, "error"))

JsonColumnErrors(entity, row, rowIndex) ==
    Flatten([i \in 1..Len(row) |->
        IF includes(normalizeFieldName(row[i].k), "json")
        THEN ParseErrors(entity, rowIndex, row[i].k, parseJsonString(row[i].v))
        ELSE <<>>])

\* if (priority !== undefined && (Number(priority) < 1 || Number(priority) > 5))
PriorityErrors(entity, rowIndex, field, priority) ==
    PushIf(priority.t # "undef"
             /\ (NumLt(ToNumber(priority), Num(1)) \/ NumLt(Num(5), ToNumber(priority))),
           createError(entity, rowIndex, field, "Priority must be 1-5.", "error"))

\* The clients branch comparing a listed id with the id cell itself, without
\* String() on it.
ClientRowErrorsById(rowIndex, allSheets, priority, requested) ==
    PriorityErrors("clients", rowIndex, "priorityLevel", priority)
    \o (IF requested.error # NoError
        THEN <<createError("clients", rowIndex, "requestedTasks", requested.error, "error")>>
        ELSE Flatten([i \in 1..Len(requested.result) |->
                PushIf(~\E t \in 1..Len(allSheets["tasks"].jsonData) :
                           getNormalizedValue(allSheets["tasks"].jsonData[t],
                                              <<"id", "taskId">>) = Str(requested.result[i]),
                       createError("clients", rowIndex, "requestedTasks",
                                   "Task ID \"" \o requested.result[i] \o "\" not found.",
                                   "error"))]))

\* The clients branch giving up on a row at its first fault: the requestedTasks
\* cell is looked at only when the priorityLevel cell is in range.
ClientRowErrorsUntilFirst(rowIndex, allSheets, priority, requested) ==
    IF PriorityErrors("clients", rowIndex, "priorityLevel", priority) # <<>>
    THEN PriorityErrors("clients", rowIndex, "priorityLevel", priority)
    ELSE IF requested.error # NoError
    THEN <<createError("clients", rowIndex, "requestedTasks", requested.error, "error")>>
    ELSE Flatten([i \in 1..Len(requested.result) |->
            PushIf(~\E t \in 1..Len(allSheets["tasks"].jsonData) :
                       ToStr(getNormalizedValue(allSheets["tasks"].jsonData[t],
                                                <<"id", "taskId">>)) = requested.result[i],
                   createError("clients", rowIndex, "requestedTasks",
                               "Task ID \"" \o requested.result[i] \o "\" not found.",
                               "error"))])

\* The clients branch, on the priority and the parsed requested tasks of the row.
ClientRowErrors(rowIndex, allSheets, priority, requested) ==
    PriorityErrors("clients", rowIndex, "priorityLevel", priority)
    \o (IF requested.error # NoError
        THEN <<createError("clients", rowIndex, "requestedTasks", requested.error, "error")>>
        ELSE Flatten([i \in 1..Len(requested.result) |->
                PushIf(~\E t \in 1..Len(allSheets["tasks"].jsonData) :
                           ToStr(getNormalizedValue(allSheets["tasks"].jsonData[t],
                                                    <<"id", "taskId">>)) = requested.result[i],
                       createError("clients", rowIndex, "requestedTasks",
                                   "Task ID \"" \o requested.result[i] \o "\" not found.",
                                   "error"))]))

\* The workers branch, on the parsed slots, the maxLoad and the parsed skills.
WorkerRowErrors(rowIndex, slots, maxLoad, skills) ==
    (IF slots.error # NoError
     THEN <<createError("workers", rowIndex, "availableSlots", slots.error, "error")>>
     ELSE PushIf(\E i \in 1..Len(slots.result) : isNaN(StringToNumber(slots.result[i])),
                 createError("workers", rowIndex, "availableSlots",
                             "Must be a list of numbers.", "error")))
    \o
    PushIf(maxLoad.t # "undef" /\ NumLt(Num(Len(slots.result)), ToNumber(maxLoad)),
           createError("workers", rowIndex, "maxLoadPerPhase",
                       "MaxLoad (" \o ToStr(maxLoad) \o ") > available slots ("
                           \o IntToStr(Len(slots.result)) \o ").", "error"))
    \o
    ParseErrors("workers", rowIndex, "skills", skills)

\* The workers that have every required skill and a non-empty slot list.
QualifiedAndAvailableWorkers(allSheets, requiredSkills) ==
    LET Qualifies(workerSkills, availableSlots) ==
            /\ \A k \in 1..Len(requiredSkills) : requiredSkills[k] \in Range(workerSkills)
            /\ Len(availableSlots) > 0
    IN  Cardinality({i \in 1..Len(allSheets["workers"].jsonData) :
            Qualifies(
                parseArrayString(getNormalizedValue(allSheets["workers"].jsonData[i],
                                                    <<"skills", "workerSkills">>)).result,
                parseArrayString(getNormalizedValue(allSheets["workers"].jsonData[i],
                                                    <<"availableSlots", "slots">>)).result)})

\* That comparison as maxConcurrent >= qualifiedAndAvailableWorkers.
ConcurrencyErrorsFromEqual(rowIndex, maxConcurrent, qualified) ==
    PushIf(NumLt(Num(qualified - 1), ToNumber(maxConcurrent)),
           createError("tasks", rowIndex, "maxConcurrent",
                       "MaxConcurrent (" \o ToStr(maxConcurrent)
                           \o ") > qualified, available workers ("
                           \o IntToStr(qualified) \o ").", "error"))

\* if (Number(maxConcurrent) > qualifiedAndAvailableWorkers) push
ConcurrencyErrors(rowIndex, maxConcurrent, qualified) ==
    PushIf(NumLt(Num(qualified), ToNumber(maxConcurrent)),
           createError("tasks", rowIndex, "maxConcurrent",
                       "MaxConcurrent (" \o ToStr(maxConcurrent)
                           \o ") > qualified, available workers ("
                           \o IntToStr(qualified) \o ").", "error"))

\* The tasks branch, on the priority, the duration, the parsed phases, the
\* maxConcurrent and the parsed required skills of the row.
TaskRowErrors(rowIndex, allSheets, priority, duration, phases, maxConcurrent, required) ==
    PriorityErrors("tasks", rowIndex, "priority", priority)
    \o
    PushIf(duration.t # "undef" /\ NumLt(ToNumber(duration), Num(1)),
           createError("tasks", rowIndex, "duration", "Duration must be >= 1.", "error"))
    \o
    (IF phases.error # NoError
     THEN <<createError("tasks", rowIndex, "preferredPhases", phases.error, "error")>>
     ELSE PushIf(\E i \in 1..Len(phases.result) : phases.result[i] < 1,
                 createError("tasks", rowIndex, "preferredPhases",
                             "Phases must be positive integers.", "error")))
    \o
    (IF ~Truthy(maxConcurrent) THEN <<>>
     ELSE IF required.error # NoError
     THEN <<createError("tasks", rowIndex, "skills", required.error, "error")>>
     ELSE ConcurrencyErrors(rowIndex, maxConcurrent,
                            QualifiedAndAvailableWorkers(allSheets, required.result)))

validateRow(entity, row, rowIndex, allSheets) ==
    JsonColumnErrors(entity, row, rowIndex)
    \o (CASE entity = "clients" ->
               ClientRowErrors(rowIndex, allSheets,
                   getNormalizedValue(row, <<"priorityLevel", "priority">>),
                   parseArrayString(
                       getNormalizedValue(row, <<"requestedTasks", "requestedTaskIDs">>)))
          [] entity = "workers" ->
               WorkerRowErrors(rowIndex,
                   parseArrayString(getNormalizedValue(row, <<"availableSlots", "slots">>)),
                   getNormalizedValue(row, <<"maxLoad", "maxLoadPerPhase">>),
                   parseArrayString(getNormalizedValue(row, <<"skills", "workerSkills">>)))
          [] entity = "tasks" ->
               TaskRowErrors(rowIndex, allSheets,
                   getNormalizedValue(row, <<"priority", "priorityLevel">>),
                   getNormalizedValue(row, <<"duration", "taskDuration">>),
                   parsePhaseString(getNormalizedValue(row, <<"preferredPhases", "phases">>)),
                   getNormalizedValue(row, <<"maxConcurrent", "maxConcurrentTasks">>),
                   parseArrayString(getNormalizedValue(row, <<"skills", "requiredSkills">>)))
          [] OTHER -> <<>>)

-----------------------------------------------------------------------------
(* Dataset Validator *)

REQUIRED_COLUMNS ==
    [clients |-> <<"id", "priorityLevel">>,
     workers |-> <<"id", "availableSlots", "maxLoadPerPhase">>,
     tasks |-> <<"id", "duration", "requiredSkills">>]

\* The schema stage pushing one error for each missing column.
MissingErrorsEach(entity, missing) ==
    [i \in 1..Len(missing) |->
        createError(entity, 0 - 1, "File", "Missing required columns: " \o missing[i],
                    "error")]

\* if (missing.length > 0) allErrors.push(...)
MissingErrors(entity, missing) ==
    PushIf(Len(missing) > 0,
           createError(entity, 0 - 1, "File",
                       "Missing required columns: " \o join(missing, ", "), "error"))

\* Stage 1: required columns against the normalized headers,
\* missing = required.filter(col => !headers.includes(normalizeFieldName(col))).
SchemaErrors(currentSheets) ==
    Flatten([e \in 1..Len(EntityOrder) |->
        IF Len(currentSheets[EntityOrder[e]].jsonData) = 0 THEN <<>>
        ELSE MissingErrors(EntityOrder[e],
                 SelectSeq(REQUIRED_COLUMNS[EntityOrder[e]],
                     LAMBDA col : normalizeFieldName(col) \notin
                         {normalizeFieldName(currentSheets[EntityOrder[e]].headers[i]) :
                             i \in 1..Len(currentSheets[EntityOrder[e]].headers)}))])

\* ['id', `${entity.slice(0, -1)}Id`, `${...}ID`, `${...}_id`]
IdVariations(entity) ==
    <<"id", SubSeq(entity, 1, Len(entity) - 1) \o "Id",
      SubSeq(entity, 1, Len(entity) - 1) \o "ID", SubSeq(entity, 1, Len(entity) - 1) \o "_id">>

\* ids.set(key, index) of the Map ids.
MapSet(ids, key, index) ==
    IF key \in DOMAIN ids THEN [ids EXCEPT ![key] = index] ELSE ids @@ (key :> index)

RECURSIVE DuplicateErrorsFrom(_, _, _, _), DuplicateCheck(_, _, _, _, _)
\* jsonData.forEach((row, index) => ...) from row `index` (0-based) on, ids
\* being the Map built by the rows before it.
DuplicateErrorsFrom(entity, jsonData, index, ids) ==
    IF index >= Len(jsonData) THEN <<>>
    ELSE DuplicateCheck(entity, jsonData, index, ids,
                        getNormalizedValue(jsonData[index + 1], IdVariations(entity)))

\* That loop body registering the id at every occurrence, so that a duplicate
\* names the latest earlier row.
DuplicateCheckNamingLast(entity, jsonData, index, ids, id) ==
    IF id.t \in {"undef", "null"} \/ trim(ToStr(id)) = ""
    THEN DuplicateErrorsFrom(entity, jsonData, index + 1, ids)
    ELSE PushIf(ToStr(id) \in DOMAIN ids,
                createError(entity, index, "id",
                            "Duplicate ID \"" \o ToStr(id) \o "\" also found at row "
                                \o IntToStr(ids[ToStr(id)] + 1), "error"))
         \o DuplicateErrorsFrom(entity, jsonData, index + 1, MapSet(ids, ToStr(id), index))

\* The body of that loop for the row at index, whose id is id.
DuplicateCheck(entity, jsonData, index, ids, id) ==
    IF id.t \in {"undef", "null"} \/ trim(ToStr(id)) = "" THEN DuplicateErrorsFrom(entity, jsonData, index + 1, ids)
    ELSE IF ToStr(id) \in DOMAIN ids
    THEN <<createError(entity, index, "id",
                       "Duplicate ID \"" \o ToStr(id) \o "\" also found at row "
                           \o IntToStr(ids[ToStr(id)] + 1), "error")>>
         \o DuplicateErrorsFrom(entity, jsonData, index + 1, ids)
    ELSE DuplicateErrorsFrom(entity, jsonData, index + 1, MapSet(ids, ToStr(id), index))

\* Stage 2: duplicate ids, per entity.
DuplicateErrors(currentSheets) ==
    Flatten([e \in 1..Len(EntityOrder) |->
        DuplicateErrorsFrom(EntityOrder[e], currentSheets[EntityOrder[e]].jsonData, 0, <<>>)])

\* Stage 3: the row validator on every row of every entity.
RowErrors(currentSheets) ==
    Flatten([e \in 1..Len(EntityOrder) |->
        Flatten([i \in 1..Len(currentSheets[EntityOrder[e]].jsonData) |->
            validateRow(EntityOrder[e], currentSheets[EntityOrder[e]].jsonData[i], i - 1,
                        currentSheets)])])

\* a + b on two JavaScript numbers.
NumAdd(a, b) == IF a.t = "num" /\ b.t = "num" THEN Num(a.n + b.n) ELSE NaN

\* phaseSlots[slotNum] = (phaseSlots[slotNum] || 0) + 1, when slotNum is a number
CountSlot(phaseSlots, slotNum) ==
    IF isNaN(slotNum) THEN phaseSlots
    ELSE IF slotNum.n \in DOMAIN phaseSlots
    THEN [phaseSlots EXCEPT ![slotNum.n] = @ + 1]
    ELSE phaseSlots @@ (slotNum.n :> 1)

RECURSIVE CountSlots(_, _, _)
\* slots.forEach(...) from element i on.
CountSlots(phaseSlots, slots, i) ==
    IF i > Len(slots) THEN phaseSlots
    ELSE CountSlots(CountSlot(phaseSlots, StringToNumber(slots[i])), slots, i + 1)

RECURSIVE PhaseSlotsFrom(_, _, _)
\* workers.forEach(...) from worker w (1-based) on.
PhaseSlotsFrom(phaseSlots, workers, w) ==
    IF w > Len(workers) THEN phaseSlots
    ELSE PhaseSlotsFrom(
            CountSlots(phaseSlots,
                       parseArrayString(getNormalizedValue(workers[w], <<"availableSlots", "slots">>)).result,
                       1),
            workers, w + 1)

\* duration || 0: a task without a duration adds nothing to its phase.
OrZero(duration) == IF Truthy(duration) THEN duration ELSE Num(0)

\* duration || 1
OrOne(duration) == IF Truthy(duration) THEN duration ELSE Num(1)

\* phaseRequirements[phase] = (phaseRequirements[phase] || 0) + Number(duration)
\* when phase !== undefined; the object is the sequence of its (key, value)
\* properties in creation order, at the positions of the key String(phase).
AddRequirement(reqs, phase, duration, at) ==
    IF phase.t = "undef" THEN reqs
    ELSE IF at = {} THEN Append(reqs, [k |-> ToStr(phase), v |-> NumAdd(Num(0), ToNumber(duration))])
    ELSE [reqs EXCEPT ![Min(at)].v =
             NumAdd(IF Truthy(@) THEN @ ELSE Num(0), ToNumber(duration))]

RECURSIVE PhaseRequirementsFrom(_, _, _)
\* tasks.forEach(...) from task t (1-based) on.
PhaseRequirementsFrom(reqs, tasks, t) ==
    IF t > Len(tasks) THEN reqs
    ELSE PhaseRequirementsFrom(
            AddRequirement(reqs,
                getNormalizedValue(tasks[t], <<"phase", "taskPhase">>),
                OrOne(getNormalizedValue(tasks[t], <<"duration", "taskDuration">>)),
                {i \in 1..Len(reqs) :
                    reqs[i].k = ToStr(getNormalizedValue(tasks[t], <<"phase", "taskPhase">>))}),
            tasks, t + 1)

\* An integer-like property key: Object.entries lists these first, ascending.
IsIndexKey(k) == AllDigits(k) /\ (k = "0" \/ SubSeq(k, 1, 1) # "0")

\* The position of the property of props with the least index key.
LeastIndex(props) ==
    CHOOSE i \in 1..Len(props) :
        \A j \in 1..Len(props) : DigitsValue(props[i].k, 1, 0) <= DigitsValue(props[j].k, 1, 0)

RECURSIVE SortByIndex(_)
SortByIndex(props) ==
    IF Len(props) = 0 THEN <<>>
    ELSE <<props[LeastIndex(props)]>>
         \o SortByIndex(SubSeq(props, 1, LeastIndex(props) - 1)
                        \o SubSeq(props, LeastIndex(props) + 1, Len(props)))

\* Object.entries(obj) of an object given by its properties in creation order.
ObjectEntries(props) ==
    SortByIndex(SelectSeq(props, LAMBDA p : IsIndexKey(p.k)))
    \o SelectSeq(props, LAMBDA p : ~IsIndexKey(p.k))

\* if (required > available) allErrors.push(...)
SaturationErrors(phase, required, available) ==
    PushIf(NumLt(Num(available), required),
           createError("tasks", 0 - 1, "Phase Saturation",
                       "Phase " \o phase \o " overloaded: requires "
                           \o ToStr(required) \o " slots, but only "
                           \o IntToStr(available) \o " are available.", "error"))

\* Object.entries(phaseRequirements).forEach(...), available being
\* phaseSlots[Number(phase)] || 0
PhaseEntryErrors(phaseSlots, entries) ==
    Flatten([i \in 1..Len(entries) |->
        SaturationErrors(entries[i].k, entries[i].v,
                         IF /\ StringToNumber(entries[i].k).t = "num"
                            /\ StringToNumber(entries[i].k).n \in DOMAIN phaseSlots
                         THEN phaseSlots[StringToNumber(entries[i].k).n] ELSE 0)])

\* Stage 4: phaseSlots counts the worker slot entries of each phase,
\* phaseRequirements sums the durations of the tasks of each phase, and each
\* phase that requires more than is available gets one error.
PhaseErrors(currentSheets) ==
    PhaseEntryErrors(PhaseSlotsFrom(<<>>, currentSheets["workers"].jsonData, 1),
                     ObjectEntries(PhaseRequirementsFrom(<<>>, currentSheets["tasks"].jsonData, 1)))

RECURSIVE Distinct(_, _)
\* new Set(xs), in iteration order: the first occurrence of each element.
Distinct(xs, seen) ==
    IF Len(xs) = 0 THEN <<>>
    ELSE IF Head(xs) \in seen THEN Distinct(Tail(xs), seen)
    ELSE <<Head(xs)>> \o Distinct(Tail(xs), seen \cup {Head(xs)})

\* jsonData.flatMap(row => parseArrayString(getNormalizedValue(row, variations)).result)
SkillList(jsonData, fieldVariations) ==
    Flatten([i \in 1..Len(jsonData) |->
        parseArrayString(getNormalizedValue(jsonData[i], fieldVariations)).result])

\* The required skills as a list that keeps repetitions.
AllRequiredSkillsRepeated(currentSheets) ==
    SkillList(currentSheets["tasks"].jsonData, <<"skills", "requiredSkills">>)

\* new Set(...) of the skills the tasks require, in insertion order.
AllRequiredSkills(currentSheets) ==
    Distinct(SkillList(currentSheets["tasks"].jsonData, <<"skills", "requiredSkills">>), {})

\* allRequiredSkills.forEach(skill => { if (!allWorkerSkills.has(skill)) push })
UncoveredSkills(allRequiredSkills, allWorkerSkills) ==
    Flatten([i \in 1..Len(allRequiredSkills) |->
        PushIf(allRequiredSkills[i] \notin allWorkerSkills,
               createError("tasks", 0 - 1, "Skill Coverage",
                           "Skill \"" \o allRequiredSkills[i]
                               \o "\" is required by tasks but not provided by any worker.",
                           "warning"))])

\* Stage 5: a warning for each required skill no worker provides.
SkillErrors(currentSheets) ==
    UncoveredSkills(AllRequiredSkills(currentSheets),
                    Range(SkillList(currentSheets["workers"].jsonData,
                                    <<"skills", "workerSkills">>)))

-----------------------------------------------------------------------------
(* Rule Engine *)

\* The 1-based positions of the task rows with String(id) === String(taskId).
TasksWithId(currentSheets, taskId) ==
    {i \in 1..Len(currentSheets["tasks"].jsonData) :
        ToStr(getNormalizedValue(currentSheets["tasks"].jsonData[i], <<"id", "taskId">>))
            = ToStr(taskId)}

\* deps.filter(d => rule.tasks.includes(d)): a parsed dependency is a string
\* and includes compares with SameValueZero, so it matches string elements only.
FilteredDeps(ruleTasks, deps) ==
    SelectSeq([i \in 1..Len(deps) |-> Str(deps[i])], LAMBDA d : d \in Range(ruleTasks))

\* const task = tasks.find(...); if (task) graph.set(taskId, filteredDeps): found
\* holds the positions of the matching rows, find takes the first.
WithTask(graph, currentSheets, ruleTasks, taskId, found) ==
    IF found = {} THEN graph
    ELSE MapSet(graph, taskId,
                FilteredDeps(ruleTasks,
                    parseArrayString(
                        getNormalizedValue(currentSheets["tasks"].jsonData[Min(found)],
                                           <<"dependencies", "dependsOn">>)).result))

RECURSIVE CoRunGraphFrom(_, _, _, _)
\* rule.tasks.forEach(taskId => ...) from element i on: the Map graph.
CoRunGraphFrom(graph, currentSheets, ruleTasks, i) ==
    IF i > Len(ruleTasks) THEN graph
    ELSE CoRunGraphFrom(WithTask(graph, currentSheets, ruleTasks, ruleTasks[i],
                                 TasksWithId(currentSheets, ruleTasks[i])),
                        currentSheets, ruleTasks, i + 1)

RECURSIVE detectCycle(_, _, _), DetectInDeps(_, _, _, _, _)
\* detectCycle(taskId) on the sets visited and recursionStack held in st; the
\* result carries the sets as the call leaves them.
detectCycle(graph, taskId, st) ==
    DetectInDeps(graph, taskId, IF taskId \in DOMAIN graph THEN graph[taskId] ELSE <<>>, 1,
                 [st EXCEPT !.visited = @ \cup {taskId}, !.recursionStack = @ \cup {taskId}])

\* The for loop of detectCycle over dependencies, from element i on.
DetectInDeps(graph, taskId, dependencies, i, st) ==
    LET Next1(r) == IF r.found THEN r ELSE DetectInDeps(graph, taskId, dependencies, i + 1, r)
    IN  IF i > Len(dependencies) THEN [st EXCEPT !.recursionStack = @ \ {taskId}, !.found = FALSE]
        ELSE IF dependencies[i] \notin st.visited
        THEN Next1(detectCycle(graph, dependencies[i], st))
        ELSE IF dependencies[i] \in st.recursionStack THEN [st EXCEPT !.found = TRUE]
        ELSE DetectInDeps(graph, taskId, dependencies, i + 1, st)

RECURSIVE CoRunHasCycleFrom(_, _, _, _)
\* for (const taskId of rule.tasks) ... break on the first cycle.
CoRunHasCycleFrom(graph, ruleTasks, i, st) ==
    LET Searched(r) == r.found \/ CoRunHasCycleFrom(graph, ruleTasks, i + 1, r)
    IN  IF i > Len(ruleTasks) THEN FALSE
        ELSE IF ruleTasks[i] \in st.visited THEN CoRunHasCycleFrom(graph, ruleTasks, i + 1, st)
        ELSE Searched(detectCycle(graph, ruleTasks[i], st))

CoRunErrors(currentSheets, ruleList) ==
    Flatten([i \in 1..Len(ruleList) |->
        PushIf(/\ ruleList[i].type = "coRun"
               /\ ruleList[i].active
               /\ Len(ruleList[i].tasks) > 1
               /\ CoRunHasCycleFrom(CoRunGraphFrom(<<>>, currentSheets, ruleList[i].tasks, 1),
                                    ruleList[i].tasks, 1,
                                    [visited |-> {}, recursionStack |-> {}, found |-> FALSE]),
               createError("tasks", 0 - 1, "Rules",
                           "Circular dependency in co-run rule: "
                               \o join([k \in 1..Len(ruleList[i].tasks) |->
                                           IF ruleList[i].tasks[k].t \in {"undef", "null"}
                                           THEN "" ELSE ToStr(ruleList[i].tasks[k])], ", "),
                           "error"))])

\* That check comparing the group with the cell itself, without String() on it.
GroupErrorsByValue(entity, jsonData, fieldVariations, group, kind) ==
    PushIf(Truthy(group)
             /\ ~\E i \in 1..Len(jsonData) :
                    getNormalizedValue(jsonData[i], fieldVariations) = group,
           createError(entity, 0 - 1, "Rules",
                       "Slot Restriction rule references non-existent " \o kind \o " group: "
                           \o ToStr(group) \o ".", "warning"))

\* A slotRestriction group that no row of jsonData carries:
\* if (group) { if (!jsonData.some(row => String(group of row) === String(group))) push }
GroupErrors(entity, jsonData, fieldVariations, group, kind) ==
    PushIf(Truthy(group)
             /\ ~\E i \in 1..Len(jsonData) :
                    ToStr(getNormalizedValue(jsonData[i], fieldVariations)) = ToStr(group),
           createError(entity, 0 - 1, "Rules",
                       "Slot Restriction rule references non-existent " \o kind \o " group: "
                           \o ToStr(group) \o ".", "warning"))

\* The slotRestriction check reading every rule of the type, active or not.
SlotRestrictionErrorsOfAll(currentSheets, ruleList) ==
    Flatten([i \in 1..Len(ruleList) |->
        IF ruleList[i].type # "slotRestriction" THEN <<>>
        ELSE GroupErrors("clients", currentSheets["clients"].jsonData,
                         <<"groupTag", "clientGroup">>, ruleList[i].clientGroup, "client")
             \o
             GroupErrors("workers", currentSheets["workers"].jsonData,
                         <<"workerGroup", "groupTag">>, ruleList[i].workerGroup, "worker")])

\* rules.filter(r => r.type === 'slotRestriction' && r.active).forEach(...)
SlotRestrictionErrors(currentSheets, ruleList) ==
    Flatten([i \in 1..Len(ruleList) |->
        IF ~(ruleList[i].type = "slotRestriction" /\ ruleList[i].active) THEN <<>>
        ELSE GroupErrors("clients", currentSheets["clients"].jsonData,
                         <<"groupTag", "clientGroup">>, ruleList[i].clientGroup, "client")
             \o
             GroupErrors("workers", currentSheets["workers"].jsonData,
                         <<"workerGroup", "groupTag">>, ruleList[i].workerGroup, "worker")])

\* The list allErrors that validateAllData(currentSheets) builds, with the
\* rules of the closure it runs in.
validateAllData(currentSheets, ruleList) ==
    SchemaErrors(currentSheets)
    \o DuplicateErrors(currentSheets)
    \o RowErrors(currentSheets)
    \o PhaseErrors(currentSheets)
    \o SkillErrors(currentSheets)
    \o CoRunErrors(currentSheets, ruleList)
    \o SlotRestrictionErrors(currentSheets, ruleList)

-----------------------------------------------------------------------------
(* State of the Dashboard component *)

EmptySheets == [e \in Entities |-> [headers |-> <<>>, jsonData |-> <<>>]]

RECURSIVE Serialize(_)
\* JSON.parse(JSON.stringify(v)) of a cell value: NaN becomes null, an
\* undefined array element becomes null.
Serialize(v) ==
    CASE v.t = "nan" -> Null
      [] v.t = "arr" -> Arr([i \in 1..Len(v.a) |->
                              IF v.a[i].t = "undef" THEN Null ELSE Serialize(v.a[i])])
      [] OTHER -> v

\* The stored form of a record set: a property whose value is undefined is
\* dropped by JSON.stringify.
StoredItem(jsonData) ==
    LET Stored(kept) == [i \in 1..Len(kept) |-> [k |-> kept[i].k, v |-> Serialize(kept[i].v)]]
    IN  [has |-> TRUE,
         json |-> [r \in 1..Len(jsonData) |->
                     Stored(SelectSeq(jsonData[r], LAMBDA p : p.v.t # "undef"))]]

\* No autoFixErrors call is waiting for the suggestion service.
NoFixCall ==
    [active |-> FALSE, answered |-> FALSE, response |-> [kind |-> "nofixes", fixes |-> <<>>],
     sheets |-> EmptySheets, rules |-> <<>>, validationErrors |-> <<>>]

-----------------------------------------------------------------------------
(* Mutation / Fix Interface *)

\* item[key] = value on a row object: an existing key keeps its place, a new
\* key is added last.
SetKey(item, key, value) ==
    IF \E i \in 1..Len(item) : item[i].k = key
    THEN [i \in 1..Len(item) |-> IF item[i].k = key THEN [item[i] EXCEPT !.v = value] ELSE item[i]]
    ELSE Append(item, [k |-> key, v |-> value])

\* The row with field written under the literal key field, whatever its keys.
SetFieldLiteral(item, field, value) == SetKey(item, field, value)

\* The row with field written through its resolved key,
\* Object.keys(item).find(k => normalize(k) === normalize(field)) || field
SetField(item, field, value) ==
    LET Found(m) == IF m # {} /\ item[Min(m)].k # "" THEN item[Min(m)].k ELSE field
    IN  SetKey(item, Found(MatchingKeys(item, normalizeFieldName(field))), value)

\* The sheets with every row of entity replaced by item.
WithRowEverywhere(allSheets, entity, rowIndex, item) ==
    [allSheets EXCEPT ![entity].jsonData = [r \in 1..Len(@) |-> item]]

\* The sheets with row rowIndex (0-based) of entity replaced by item.
WithRow(allSheets, entity, rowIndex, item) ==
    [allSheets EXCEPT ![entity].jsonData[rowIndex + 1] = item]

\* newSheets[entity].jsonData[rowIndex] is a row: the 0-based index of it.
FixRowExists(newSheets, fix) ==
    LET Exists(entity, rowIndex) ==
            /\ entity \in Entities
            /\ IsIndexKey(rowIndex)
            /\ DigitsValue(rowIndex, 1, 0) < Len(newSheets[entity].jsonData)
    IN  Exists(ToStr(fix.entity), ToStr(fix.rowIndex))

\* The body of aiResponse.fixes.forEach for one fix throws a TypeError:
\* reading [rowIndex] of an undefined jsonData, or field.toLowerCase of a field
\* that is no string while the row has a key to compare it with.
FixThrows(newSheets, fix) ==
    \/ ToStr(fix.entity) \in {"constructor", "toString", "valueOf", "hasOwnProperty",
                              "__proto__", "isPrototypeOf", "propertyIsEnumerable",
                              "toLocaleString"}
    \/ /\ FixRowExists(newSheets, fix)
       /\ Len(newSheets[ToStr(fix.entity)].jsonData[DigitsValue(ToStr(fix.rowIndex), 1, 0) + 1]) > 0
       /\ fix.field.t # "str"

\* The body of aiResponse.fixes.forEach for one fix that does not throw.
ApplyFix(newSheets, fix) ==
    LET Written(entity, rowIndex) ==
            WithRow(newSheets, entity, rowIndex,
                    SetField(newSheets[entity].jsonData[rowIndex + 1], ToStr(fix.field),
                             fix.newValue))
    IN  IF FixRowExists(newSheets, fix) THEN Written(ToStr(fix.entity), DigitsValue(ToStr(fix.rowIndex), 1, 0))
        ELSE newSheets

RECURSIVE ApplyFixes(_, _, _)
\* aiResponse.fixes.forEach(...) from fix i on: threw is TRUE when the loop is
\* left by an exception.
ApplyFixes(newSheets, fixes, i) ==
    IF i > Len(fixes) THEN [threw |-> FALSE, sheets |-> newSheets]
    ELSE IF FixThrows(newSheets, fixes[i]) THEN [threw |-> TRUE, sheets |-> newSheets]
    ELSE ApplyFixes(ApplyFix(newSheets, fixes[i]), fixes, i + 1)

-----------------------------------------------------------------------------
(* Bounds and input sets of the dashboard specification *)

\* Client rows in the record set found in storage.
MaxRows == 2
\* User events (edits, marks, rule changes, fix requests) in one behaviour.
MaxEvents == 2
\* Proposals in one answer of the suggestion service.
MaxFixes == 2

KV(k, v) == [k |-> k, v |-> v]

\* The client record set the model starts from: odd rows carry an out-of-range
\* priority, even rows an in-range one.
StoredClients ==
    [i \in 1..MaxRows |-> <<KV("id", Str("C" \o IntToStr(i))),
                           KV("priorityLevel", IF i % 2 = 1 THEN Num(7) ELSE Num(3))>>]

StoredWorkers ==
    << <<KV("id", Str("W1")), KV("availableSlots", Str("1,2")),
         KV("maxLoadPerPhase", Num(1)), KV("skills", Str("a"))>> >>

StoredTasks ==
    << <<KV("id", Str("T1")), KV("priority", Num(9)), KV("duration", Num(1)),
         KV("requiredSkills", Str("a")), KV("dependencies", Str("T2"))>>,
       <<KV("id", Str("T2")), KV("priority", Num(2)), KV("duration", Num(1)),
         KV("requiredSkills", Str("a")), KV("dependencies", Str("T1"))>> >>

\* What the upload page can have left in storage: nothing, or the three record sets.
InitialStores ==
    {[e \in Entities |-> [has |-> FALSE, json |-> <<>>]]}
    \cup {[clients |-> StoredItem(StoredClients), workers |-> StoredItem(StoredWorkers),
           tasks |-> StoredItem(StoredTasks)]}

\* The rule the form holds when Add Rule is pressed.
RuleDrafts(allSheets) ==
    {[type |-> "coRun", active |-> TRUE,
      tasks |-> [i \in 1..Len(allSheets["tasks"].jsonData) |->
                    getNormalizedValue(allSheets["tasks"].jsonData[i], <<"id", "taskId">>)],
      clientGroup |-> Undef, workerGroup |-> Undef],
     [type |-> "slotRestriction", active |-> TRUE, tasks |-> <<>>,
      clientGroup |-> Str("vip"), workerGroup |-> Undef]}

\* The proposals the suggestion service may send: one of an unknown entity,
\* one of a row out of range, a well-formed one, one whose field is no string.
FixEntries ==
    <<[entity |-> Str("orders"), rowIndex |-> Num(0), field |-> Str("priority"), newValue |-> Num(4)],
      [entity |-> Str("tasks"), rowIndex |-> Num(5), field |-> Str("priority"), newValue |-> Num(4)],
      [entity |-> Str("tasks"), rowIndex |-> Num(0), field |-> Str("Priority"), newValue |-> Num(4)],
      [entity |-> Str("tasks"), rowIndex |-> Num(0), field |-> Num(1), newValue |-> Num(4)]>>

\* What callAiFixApi resolves to: it throws, or returns an object with or
\* without a fixes list (of at most MaxFixes proposals, in the order above).
FixResponses ==
    {[kind |-> "error", fixes |-> <<>>], [kind |-> "nofixes", fixes |-> <<>>]}
    \cup {[kind |-> "fixes", fixes |-> [i \in 1..Len(picked) |-> FixEntries[picked[i]]]] :
             picked \in {g \in UNION {[1..m -> 1..Len(FixEntries)] : m \in 0..MaxFixes} :
                            \A i, j \in 1..Len(g) : i < j => g[i] < g[j]}}

-----------------------------------------------------------------------------
(* The dashboard *)

Init ==
    /\ sheets = EmptySheets
    /\ rules = <<>>
    /\ validationErrors = <<>>
    /\ validationProgress = 0
    /\ isLoading = TRUE
    /\ isFixingWithAI = FALSE
    /\ localStorage \in InitialStores
    /\ effectPending = FALSE
    /\ fixCall = NoFixCall
    /\ now = 0
    /\ arg = Undef
    /\ ret = Undef

\* The sheet loadData builds for one entity from its stored item.
LoadedSheet(item) ==
    IF item.has /\ Len(item.json) > 0
    THEN [headers |-> [i \in 1..Len(item.json[1]) |-> item.json[1][i].k],
          jsonData |-> item.json]
    ELSE [headers |-> <<>>, jsonData |-> <<>>]

\* useEffect(loadData, []): the mount effect.
LoadData ==
    /\ isLoading
    /\ sheets' = [e \in Entities |-> LoadedSheet(localStorage[e])]
    /\ isLoading' = FALSE
    /\ effectPending' = TRUE
    /\ UNCHANGED <<rules, validationErrors, validationProgress, isFixingWithAI,
                   localStorage, fixCall, now, arg, ret>>

\* The validation effect carrying the fixed marks over to the diagnostics of
\* the same id.
RunValidationKeepingFixed ==
    /\ effectPending
    /\ ~isLoading
    /\ \E errors \in {validateAllData(sheets, rules)} :
          validationErrors' =
              [i \in 1..Len(errors) |->
                  [errors[i] EXCEPT !.fixed =
                      \E d \in Range(validationErrors) : d.id = errors[i].id /\ d.fixed]]
    /\ validationProgress' = 100
    /\ effectPending' = FALSE
    /\ UNCHANGED <<sheets, rules, isLoading, isFixingWithAI, localStorage, fixCall,
                   now, arg, ret>>

\* useEffect(runValidation, [isLoading, sheets, rules, validateAllData])
RunValidation ==
    /\ effectPending
    /\ ~isLoading
    /\ validationErrors' = validateAllData(sheets, rules)
    /\ validationProgress' = 100
    /\ effectPending' = FALSE
    /\ UNCHANGED <<sheets, rules, isLoading, isFixingWithAI, localStorage, fixCall,
                   now, arg, ret>>

\* handleCellEdit without its call of validateAllData(newSheets).
CellEditUpdateWithoutPass(newSheets) ==
    /\ sheets' = newSheets
    /\ effectPending' = TRUE
    /\ UNCHANGED <<validationErrors, validationProgress>>

\* What handleCellEdit publishes: setSheets(newSheets), then the pass over them.
CellEditUpdate(newSheets) ==
    /\ sheets' = newSheets
    /\ validationErrors' = validateAllData(newSheets, rules)
    /\ validationProgress' = 100
    /\ effectPending' = TRUE

handleCellEdit(entity, rowIndex, header, value) ==
    /\ now < MaxEvents
    /\ ~isLoading /\ ~effectPending
    /\ rowIndex < Len(sheets[entity].jsonData)
    /\ header \in Range(sheets[entity].headers)
    /\ \E newSheets \in {WithRow(sheets, entity, rowIndex,
                               SetField(sheets[entity].jsonData[rowIndex + 1], header,
                                        Str(value)))} :
          /\ localStorage' =
                 [localStorage EXCEPT ![entity] = StoredItem(newSheets[entity].jsonData)]
          /\ CellEditUpdate(newSheets)
    /\ now' = now + 1
    /\ UNCHANGED <<rules, isLoading, isFixingWithAI, fixCall, arg, ret>>

\* reader.onload of handleFileImport, for a file whose detected entity is the
\* one asked for: setSheets(prev => ({ ...prev, [entity]: ... })), and the
\* record set stored.
handleFileImport(entity, jsonData) ==
    /\ now < MaxEvents
    /\ ~isLoading /\ ~effectPending
    /\ sheets' = [sheets EXCEPT ![entity] = LoadedSheet([has |-> TRUE, json |-> jsonData])]
    /\ localStorage' = [localStorage EXCEPT ![entity] = StoredItem(jsonData)]
    /\ effectPending' = TRUE
    /\ now' = now + 1
    /\ UNCHANGED <<rules, validationErrors, validationProgress, isLoading, isFixingWithAI,
                   fixCall, arg, ret>>

\* prev.map(err => err.id === errorId ? { ...err, fixed: true } : err)
markAsFixed(errorId) ==
    /\ now < MaxEvents
    /\ ~isLoading /\ ~effectPending
    /\ \E i \in 1..Len(validationErrors) :
          validationErrors[i].id = errorId /\ ~validationErrors[i].fixed
    /\ validationErrors' =
           [i \in 1..Len(validationErrors) |->
               IF validationErrors[i].id = errorId
               THEN [validationErrors[i] EXCEPT !.fixed = TRUE] ELSE validationErrors[i]]
    /\ now' = now + 1
    /\ UNCHANGED <<sheets, rules, validationProgress, isLoading, isFixingWithAI,
                   localStorage, effectPending, fixCall, arg, ret>>

\* addRule with no validation effect depending on the rules.
addRuleWithoutEffect(draft) ==
    /\ now < MaxEvents
    /\ ~isLoading /\ ~effectPending
    /\ rules' = Append(rules, [id |-> "rule-" \o IntToStr(now), type |-> draft.type,
                               active |-> draft.active, tasks |-> draft.tasks,
                               clientGroup |-> draft.clientGroup,
                               workerGroup |-> draft.workerGroup])
    /\ now' = now + 1
    /\ UNCHANGED <<sheets, validationErrors, validationProgress, isLoading, isFixingWithAI,
                   localStorage, effectPending, fixCall, arg, ret>>

\* setRules(prev => [...prev, { id: `rule-${Date.now()}`, active: true, ...newRule }])
addRule(draft) ==
    /\ now < MaxEvents
    /\ ~isLoading /\ ~effectPending
    /\ rules' = Append(rules, [id |-> "rule-" \o IntToStr(now), type |-> draft.type,
                               active |-> draft.active, tasks |-> draft.tasks,
                               clientGroup |-> draft.clientGroup,
                               workerGroup |-> draft.workerGroup])
    /\ effectPending' = TRUE
    /\ now' = now + 1
    /\ UNCHANGED <<sheets, validationErrors, validationProgress, isLoading, isFixingWithAI,
                   localStorage, fixCall, arg, ret>>

toggleRule(id) ==
    /\ now < MaxEvents
    /\ ~isLoading /\ ~effectPending
    /\ rules' = [i \in 1..Len(rules) |->
                    IF rules[i].id = id THEN [rules[i] EXCEPT !.active = ~@] ELSE rules[i]]
    /\ effectPending' = TRUE
    /\ now' = now + 1
    /\ UNCHANGED <<sheets, validationErrors, validationProgress, isLoading, isFixingWithAI,
                   localStorage, fixCall, arg, ret>>

removeRule(id) ==
    /\ now < MaxEvents
    /\ ~isLoading /\ ~effectPending
    /\ rules' = SelectSeq(rules, LAMBDA r : r.id # id)
    /\ effectPending' = TRUE
    /\ now' = now + 1
    /\ UNCHANGED <<sheets, validationErrors, validationProgress, isLoading, isFixingWithAI,
                   localStorage, fixCall, arg, ret>>

\* autoFixErrors up to its await: the button is disabled while a call is in
\* flight or when no diagnostic is unfixed; the call keeps the sheets, the
\* rules and the diagnostics of the render it was created in.
AutoFixStart ==
    /\ now < MaxEvents
    /\ ~isLoading /\ ~effectPending
    /\ ~isFixingWithAI
    /\ \E i \in 1..Len(validationErrors) : ~validationErrors[i].fixed
    /\ isFixingWithAI' = TRUE
    /\ fixCall' = [NoFixCall EXCEPT !.active = TRUE, !.sheets = sheets, !.rules = rules,
                                    !.validationErrors = validationErrors]
    /\ now' = now + 1
    /\ UNCHANGED <<sheets, rules, validationErrors, validationProgress, isLoading,
                   localStorage, effectPending, arg, ret>>

\* The sheets autoFixErrors publishes for an answer, from the sheets of its
\* closure: applied is FALSE when it publishes nothing (no fixes, or an
\* exception on the way).
FixOutcome(closureSheets, response) ==
    LET Applied(r) == [applied |-> ~r.threw, sheets |-> r.sheets]
    IN  IF response.kind = "fixes" /\ Len(response.fixes) > 0
        THEN Applied(ApplyFixes(closureSheets, response.fixes, 1))
        ELSE [applied |-> FALSE, sheets |-> closureSheets]

\* await callAiFixApi(prompt): the suggestion service answers the call in flight.
callAiFixApi(response) ==
    /\ fixCall.active
    /\ ~fixCall.answered
    /\ fixCall' = [fixCall EXCEPT !.answered = TRUE, !.response = response]
    /\ UNCHANGED <<sheets, rules, validationErrors, validationProgress, isLoading,
                   isFixingWithAI, localStorage, effectPending, now, arg, ret>>

\* autoFixErrors with the reset of the flag on the publishing path only.
AutoFixResolveWithoutFinally ==
    /\ fixCall.answered
    /\ \E out \in {FixOutcome(fixCall.sheets, fixCall.response)} :
          IF out.applied
          THEN /\ sheets' = out.sheets
               /\ validationErrors' = validateAllData(out.sheets, fixCall.rules)
               /\ validationProgress' = 100
               /\ effectPending' = TRUE
               /\ isFixingWithAI' = FALSE
          ELSE UNCHANGED <<sheets, validationErrors, validationProgress, effectPending,
                           isFixingWithAI>>
    /\ fixCall' = NoFixCall
    /\ UNCHANGED <<rules, isLoading, localStorage, now, arg, ret>>

\* autoFixErrors from the answer of the suggestion service to its finally.
AutoFixResolve ==
    /\ fixCall.answered
    /\ \E out \in {FixOutcome(fixCall.sheets, fixCall.response)} :
          IF out.applied
          THEN /\ sheets' = out.sheets
               /\ validationErrors' = validateAllData(out.sheets, fixCall.rules)
               /\ validationProgress' = 100
               /\ effectPending' = TRUE
          ELSE UNCHANGED <<sheets, validationErrors, validationProgress, effectPending>>
    /\ isFixingWithAI' = FALSE
    /\ fixCall' = NoFixCall
    /\ UNCHANGED <<rules, isLoading, localStorage, now, arg, ret>>

Next ==
    \/ LoadData
    \/ RunValidation
    \/ \E entity \in Entities, rowIndex \in 0..(MaxRows - 1),
          header \in {"priorityLevel", "priority"}, value \in {"3", "7"} :
             handleCellEdit(entity, rowIndex, header, value)
    \/ \E entity \in Entities,
          jsonData \in {<< <<KV("id", Str("T1")), KV("priority", Num(7))>>,
                           <<KV("id", Str("T2")), KV("Priority Level", Num(7))>> >>} :
             handleFileImport(entity, jsonData)
    \/ \E i \in 1..Len(validationErrors) : markAsFixed(validationErrors[i].id)
    \/ \E draft \in RuleDrafts(sheets) : addRule(draft)
    \/ \E i \in 1..Len(rules) : toggleRule(rules[i].id)
    \/ \E i \in 1..Len(rules) : removeRule(rules[i].id)
    \/ AutoFixStart
    \/ \E response \in FixResponses : callAiFixApi(response)
    \/ AutoFixResolve

Spec == Init /\ [][Next]_vars

\* The dashboard with a suggestion service that answers or fails every call,
\* and the continuation of autoFixErrors, up to its finally, scheduled once
\* the answer is there: the step of AutoFixResolve that resets the flag.
SpecLive ==
    /\ Spec
    /\ WF_vars(\E response \in FixResponses : callAiFixApi(response))
    /\ WF_isFixingWithAI(fixCall.answered /\ isFixingWithAI' = FALSE)

-----------------------------------------------------------------------------
(* Properties of the dashboard *)

\* C1: validateAllData is idempotent. Whenever the dashboard is at rest (loaded,
\* no validation effect pending), the diagnostics published by the last pass
\* are, as a set of (id, entity, rowIndex, field, message, level), those a
\* further pass over the same sheets and rules produces.
C1_Idempotent ==
    (~isLoading /\ ~effectPending) =>
        {[d EXCEPT !.fixed = FALSE] : d \in Range(validationErrors)}
            = Range(validateAllData(sheets, rules))

\* Diagnostics were published, and an event took place after their pass.
C1_Witness ==
    /\ ~isLoading
    /\ ~effectPending
    /\ now > 0
    /\ Len(validationErrors) > 1
    /\ \E d \in Range(validationErrors) : d.fixed

\* C7: when handleCellEdit changes the priorityLevel/priority of a row from 7
\* to 3, the list it publishes by its pass over the edited sheets no longer
\* holds the id of that row's priority error, and holds the id of every other
\* diagnostic of the list before.
C7_EditRevalidates ==
    [][\A e \in {"clients", "tasks"} : \A r \in 1..Len(sheets[e].jsonData) :
          LET names == IF e = "clients" THEN <<"priorityLevel", "priority">>
                       ELSE <<"priority", "priorityLevel">>
              gone == e \o "-" \o IntToStr(r - 1) \o "-" \o names[1] \o "-Priority must be 1-5."
          IN  (/\ localStorage' # localStorage
               /\ r <= Len(sheets'[e].jsonData)
               /\ ToNumber(getNormalizedValue(sheets[e].jsonData[r], names)) = Num(7)
               /\ ToNumber(getNormalizedValue(sheets'[e].jsonData[r], names)) = Num(3))
              => /\ gone \in {d.id : d \in Range(validationErrors)}
                 /\ gone \notin {d.id : d \in Range(validationErrors')}
                 /\ {d.id : d \in Range(validationErrors)} \ {gone}
                        \subseteq {d.id : d \in Range(validationErrors')}]_vars

\* The first client row has been edited from 7 to 3: its priority error is
\* gone and other diagnostics are published.
C7_Witness ==
    /\ now > 0
    /\ Len(sheets["clients"].jsonData) > 0
    /\ getNormalizedValue(sheets["clients"].jsonData[1], <<"priorityLevel">>) = Str("3")
    /\ localStorage["clients"].json = sheets["clients"].jsonData
    /\ validationErrors # <<>>
    /\ \A d \in Range(validationErrors) : d.id # "clients-0-priorityLevel-Priority must be 1-5."

\* C8: the fixed mark is advisory. A step that marks a diagnostic fixed changes
\* no sheet, no stored record set and no rule, and in the list only the fixed
\* flag of the diagnostics of one id; and when the validation effect runs, every
\* diagnostic that was marked fixed and whose condition still holds (the pass
\* reports its id again) is published with that id and not marked fixed.
C8_FixedIsAdvisory ==
    [][/\ (/\ Len(validationErrors') = Len(validationErrors)
           /\ \E i \in 1..Len(validationErrors) :
                 /\ validationErrors'[i].id = validationErrors[i].id
                 /\ ~validationErrors[i].fixed
                 /\ validationErrors'[i].fixed)
          => /\ sheets' = sheets
             /\ rules' = rules
             /\ localStorage' = localStorage
             /\ \E d \in Range(validationErrors) :
                   validationErrors' =
                       [i \in 1..Len(validationErrors) |->
                           IF validationErrors[i].id = d.id
                           THEN [validationErrors[i] EXCEPT !.fixed = TRUE]
                           ELSE validationErrors[i]]
       /\ (effectPending /\ ~effectPending')
          => \A d \in Range(validationErrors) :
                (d.fixed /\ d.id \in {n.id : n \in Range(validateAllData(sheets', rules'))})
                => /\ \E n \in Range(validationErrors') : n.id = d.id
                   /\ \A n \in Range(validationErrors') : n.id = d.id => ~n.fixed]_vars

\* A diagnostic is marked fixed and the validation effect is about to run.
C8_Witness ==
    /\ effectPending
    /\ \E d \in Range(validationErrors) :
          d.fixed /\ d.id \in {n.id : n \in Range(validateAllData(sheets, rules))}

\* C9: autoFixErrors applies one policy to every proposal of an answer: a
\* proposal of an unknown entity, of a row out of range or of a field that is
\* no string is skipped, every well-formed proposal of the same list is
\* applied, and no row that no well-formed proposal names is altered.
C9_SkipPolicy ==
    [][(fixCall.answered /\ ~fixCall'.active /\ fixCall.response.kind = "fixes") =>
          LET fixes == fixCall.response.fixes
              WellFormed(f) ==
                  /\ f.entity.t = "str"
                  /\ f.entity.s \in Entities
                  /\ f.rowIndex.t = "num"
                  /\ f.rowIndex.n >= 0
                  /\ f.rowIndex.n < Len(fixCall.sheets[f.entity.s].jsonData)
                  /\ f.field.t = "str"
              good == {i \in 1..Len(fixes) : WellFormed(fixes[i])}
          IN  /\ \A i \in good :
                    getNormalizedValue(
                        sheets'[fixes[i].entity.s].jsonData[fixes[i].rowIndex.n + 1],
                        <<fixes[i].field.s>>) = fixes[i].newValue
              /\ \A e \in Entities : \A r \in 1..Len(sheets'[e].jsonData) :
                    (\A i \in good : <<fixes[i].entity.s, fixes[i].rowIndex.n>> # <<e, r - 1>>)
                    => sheets'[e].jsonData[r]
                           \in {sheets[e].jsonData[r], fixCall.sheets[e].jsonData[r]}]_vars

\* An answer holding a well-formed proposal after a proposal whose field is no
\* string has been received.
C9_Witness ==
    /\ fixCall.answered
    /\ \E i, j \in 1..Len(fixCall.response.fixes) :
          /\ fixCall.response.fixes[i].field.t # "str"
          /\ fixCall.response.fixes[j] = FixEntries[3]

\* C15: no stale pass wins. Whenever the dashboard is at rest (loaded, no
\* validation effect pending), the published list is, fixed flags aside and in
\* order, the list validateAllData gives for the current sheets and the current
\* rules; and a step that publishes any other list (a pass over sheets or rules
\* that are no longer the current ones) leaves a validation effect pending.
C15_NoStalePassWins ==
    /\ []((~isLoading /\ ~effectPending) =>
            [i \in 1..Len(validationErrors) |-> [validationErrors[i] EXCEPT !.fixed = FALSE]]
                = validateAllData(sheets, rules))
    /\ [][(/\ ~isLoading'
           /\ [i \in 1..Len(validationErrors') |-> [validationErrors'[i] EXCEPT !.fixed = FALSE]]
                  # validateAllData(sheets', rules'))
          => effectPending']_vars

\* At rest after a rule was added while a fix call was in flight and the fix
\* was applied: the sheets differ from the stored record sets, and the list on
\* display is that of the current sheets and rules.
C15_Witness ==
    /\ ~isLoading
    /\ ~effectPending
    /\ ~fixCall.active
    /\ now = MaxEvents
    /\ rules # <<>>
    /\ validationErrors # <<>>
    /\ \E e \in Entities : localStorage[e].json # sheets[e].jsonData

C24_KeyResolution ==
    /\ [](\A e \in Entities : \A r \in 1..Len(sheets[e].jsonData) :
             \A i, j \in 1..Len(sheets[e].jsonData[r]) :
                 normalizeFieldName(sheets[e].jsonData[r][i].k)
                     = normalizeFieldName(sheets[e].jsonData[r][j].k) => i = j)
    /\ [][LET Resolved(start) ==
                \A e \in Entities : \A r \in 1..Len(sheets'[e].jsonData) :
                    LET new == sheets'[e].jsonData[r]
                        old == start[e].jsonData[r]
                    IN  /\ Len(new) >= Len(old)
                        /\ \A i \in 1..Len(old) : new[i].k = old[i].k
                        /\ \A i \in (Len(old) + 1)..Len(new) :
                               \A j \in 1..Len(old) :
                                   normalizeFieldName(new[i].k) # normalizeFieldName(old[j].k)
           IN  /\ (/\ sheets' # sheets
                   /\ \E entity \in Entities, rowIndex \in 0..(MaxRows - 1),
                         header \in {"priorityLevel", "priority"}, value \in {"3", "7"} :
                            handleCellEdit(entity, rowIndex, header, value))
                  => Resolved(sheets)
               /\ (sheets' # sheets /\ AutoFixResolve) => Resolved(fixCall.sheets)]_vars

\* A row imported with the column Priority Level was edited under the header
\* priority of its sheet: the row holds the new key priority after its own.
C24_Witness ==
    \E e \in Entities :
        /\ Len(sheets[e].jsonData) = 2
        /\ Len(sheets[e].jsonData[2]) = 3
        /\ sheets[e].jsonData[2][2].k = "Priority Level"
        /\ sheets[e].jsonData[2][3] = KV("priority", Str("3"))

\* C26: when the fixes of a request are applied, every cell the sheets held
\* just before, and that no fix of the answer addresses, is a cell of the sheets
\* after, with its value.
C26_NoLostUpdate ==
    [][(AutoFixResolve /\ sheets' # sheets) =>
          \A e \in Entities : \A r \in 1..Len(sheets[e].jsonData) :
              \A i \in 1..Len(sheets[e].jsonData[r]) :
                  LET cell == sheets[e].jsonData[r][i]
                      addressed ==
                          \E f \in 1..Len(fixCall.response.fixes) :
                              /\ ToStr(fixCall.response.fixes[f].entity) = e
                              /\ ToStr(fixCall.response.fixes[f].rowIndex) = IntToStr(r - 1)
                              /\ normalizeFieldName(ToStr(fixCall.response.fixes[f].field))
                                     = normalizeFieldName(cell.k)
                  IN  ~addressed =>
                          /\ r <= Len(sheets'[e].jsonData)
                          /\ cell \in Range(sheets'[e].jsonData[r])]_vars

\* C27: a step that changes the record set of an entity in memory (a cell edit,
\* a file import, the application of fixes) leaves under upload:<entity> the
\* serialization of the record set it leaves in memory.
C27_StorageInStep ==
    [][\A e \in Entities :
          (~isLoading /\ sheets'[e].jsonData # sheets[e].jsonData)
              => localStorage'[e] = StoredItem(sheets'[e].jsonData)]_vars

C29_FixLifecycle ==
    /\ [](isFixingWithAI <=> fixCall.active)
    /\ [][fixCall'.active /\ ~fixCall'.answered /\ fixCall' # fixCall
              => ~isFixingWithAI /\ ~fixCall.active]_vars
    /\ isFixingWithAI ~> ~isFixingWithAI

C29_Witness ==
    /\ isFixingWithAI
    /\ fixCall.answered
    /\ fixCall.response.kind = "error"

-----------------------------------------------------------------------------
(* One validation pass over the record sets an upload can leave in storage *)

\* Rows of a record set in the scenarios of ids and of dependencies.
MaxTasks == 3
\* Rows of a record set in the scenarios of phases and of skills.
MaxItems == 2

\* The sheet loadData builds from rows as the upload page stored them.
Sheet(jsonData) == LoadedSheet(StoredItem(jsonData))

Scenario(clients, workers, tasks, ruleList) ==
    [sheets |-> [clients |-> Sheet(clients), workers |-> Sheet(workers), tasks |-> Sheet(tasks)],
     rules |-> ruleList]

\* The upload page stores no empty record set: where a scenario is not about
\* an entity, the entity holds this one row.
OneClient == << <<KV("id", Str("C1")), KV("priorityLevel", Num(3))>> >>
OneWorker == << <<KV("id", Str("W1")), KV("availableSlots", Str("1"))>> >>

\* Every sequence of 1 to n elements of S.
RowsUpTo(S, n) == UNION {[1..m -> S] : m \in 1..n}

\* One client and one task of varied priority cells: numbers around the bounds,
\* numerals, and a word.
PriorityScenarios ==
    {Scenario(<< <<KV("id", Str("C1")), KV("priorityLevel", p)>> >>, OneWorker,
              << <<KV("id", Str("T1")), KV("priority", q)>> >>, <<>>) :
        p, q \in {Num(n) : n \in 0..6} \cup {Str("3"), Str("6"), Str("abc")}}

\* One entity holds rows of ids (texts, a number and its numeral, and a blank),
\* the two others a row T1 each.
IdScenarios ==
    {[sheets |-> [e \in Entities |->
                     IF e = entity THEN Sheet([i \in 1..Len(ids) |-> <<KV("id", ids[i])>>])
                     ELSE Sheet(<< <<KV("id", Str("T1"))>> >>)],
      rules |-> <<>>] :
        entity \in Entities, ids \in RowsUpTo({Str("T1"), Str("T2"), Num(1), Str("1"), Str(" ")}, MaxTasks)}

\* MaxTasks tasks of ids T1, T2, ... or 1, 2, ..., task i depending on task
\* dep[i] (0: on none), under one active co-run rule over the first m of them;
\* the rule holds the id cells as the rule form takes them from the sheet.
DependencyScenarios ==
    {Scenario(OneClient, OneWorker,
              [i \in 1..MaxTasks |->
                  <<KV("id", ids[i]),
                    KV("dependencies",
                       IF dep[i] = 0 THEN Undef ELSE Str(ToStr(ids[dep[i]])))>>],
              <<[id |-> "rule-0", type |-> "coRun", active |-> TRUE,
                 tasks |-> SubSeq(ids, 1, m),
                 clientGroup |-> Undef, workerGroup |-> Undef]>>) :
        ids \in {[i \in 1..MaxTasks |-> Str("T" \o IntToStr(i))], [i \in 1..MaxTasks |-> Num(i)]},
        dep \in [1..MaxTasks -> 0..MaxTasks], m \in 2..MaxTasks}

\* Up to MaxItems tasks over a first worker of varied slots and, or not, a
\* second worker whose availableSlots cell is the text "1" or the number 1. A
\* task has a duration cell (absent, zero, two) and names its phase as the
\* number 1, as the numeral 2, or by preferredPhases alone.
PhaseScenarios ==
    {Scenario(OneClient,
              << <<KV("id", Str("W1")), KV("availableSlots", Str(workers[1]))>> >>
                  \o (IF workers[2] = Undef THEN <<>>
                      ELSE << <<KV("id", Str("W2")), KV("availableSlots", workers[2])>> >>),
              [i \in 1..Len(cells) |->
                  <<KV("id", Str("T" \o IntToStr(i))), KV("duration", cells[i][1]),
                    KV("phase", IF cells[i][2] = "1" THEN Num(1)
                                ELSE IF cells[i][2] = "2" THEN Str("2") ELSE Undef),
                    KV("preferredPhases",
                       IF cells[i][2] = "preferred" THEN Str("1-2") ELSE Undef)>>], <<>>) :
        workers \in ({"", "1", "1,2", "1,1,2"} \X {Undef}) \cup ({"1"} \X {Str("1"), Num(1)}),
        cells \in RowsUpTo({Undef, Num(0), Num(2)} \X {"1", "2", "preferred"}, MaxItems)}

\* Up to MaxItems tasks of varied requiredSkills over one worker of varied skills.
SkillScenarios ==
    {Scenario(OneClient, << <<KV("id", Str("W1")), KV("skills", workerSkills)>> >>,
              [i \in 1..Len(required) |->
                  <<KV("id", Str("T" \o IntToStr(i))), KV("requiredSkills", required[i])>>],
              <<>>) :
        workerSkills \in {Undef, Str(""), Str("a"), Str("a,b")},
        required \in RowsUpTo({Undef, Str("a"), Str("b"), Str("a,b"), Str("b,b")}, MaxItems)}

\* The dashboard loaded from one of the scenarios, with the rules added, before
\* the validation effect.
InitLoaded(scenarios) ==
    /\ \E scenario \in scenarios : sheets = scenario.sheets /\ rules = scenario.rules
    /\ validationErrors = <<>>
    /\ validationProgress = 0
    /\ isLoading = FALSE
    /\ isFixingWithAI = FALSE
    /\ localStorage = [e \in Entities |-> StoredItem(sheets[e].jsonData)]
    /\ effectPending = TRUE
    /\ fixCall = NoFixCall
    /\ now = 0
    /\ arg = Undef
    /\ ret = Undef

InitValidate ==
    \/ InitLoaded(PriorityScenarios)
    \/ InitLoaded(IdScenarios)
    \/ InitLoaded(DependencyScenarios)
    \/ InitLoaded(PhaseScenarios)
    \/ InitLoaded(SkillScenarios)

SpecValidate == InitValidate /\ [][RunValidation]_vars

\* C2: after a pass, every clients row and every tasks row whose
\* priorityLevel/priority cell is 0, 6 or a text that is no number carries a
\* priority error, and a row whose cell is 1, 2, 3, 4 or 5 carries none.
C2_PriorityBounds ==
    ~effectPending =>
        \A e \in {"clients", "tasks"} : \A r \in 1..Len(sheets[e].jsonData) :
            LET cell == getNormalizedValue(sheets[e].jsonData[r],
                            IF e = "clients" THEN <<"priorityLevel", "priority">>
                            ELSE <<"priority", "priorityLevel">>)
                flagged == \E d \in Range(validationErrors) :
                              /\ d.entity = e
                              /\ d.rowIndex = r - 1
                              /\ d.field = (IF e = "clients" THEN "priorityLevel" ELSE "priority")
                              /\ d.message = "Priority must be 1-5."
                              /\ d.level = "error"
            IN  /\ (\/ ToNumber(cell) \in {Num(0), Num(6)}
                    \/ cell.t = "str" /\ isNaN(ToNumber(cell))) => flagged
                /\ (cell.t # "undef" /\ ToNumber(cell) \in {Num(n) : n \in 1..5}) => ~flagged

\* C3: after a pass, within each entity a row whose id is present and not blank
\* and equals, as a string, the id of an earlier row carries exactly one
\* diagnostic on its id: the error "Duplicate ID ... also found at row N", N the
\* 1-based position of the first row of that id. Every other row carries no
\* diagnostic on its id, whatever the ids of the other entities.
C3_DuplicateIds ==
    ~effectPending =>
        \A e \in Entities : \A r \in 1..Len(sheets[e].jsonData) :
            LET idOf(k) == getNormalizedValue(sheets[e].jsonData[k], IdVariations(e))
                named(k) == idOf(k).t \notin {"undef", "null"} /\ trim(ToStr(idOf(k))) # ""
                earlier == {k \in 1..(r - 1) : named(k) /\ ToStr(idOf(k)) = ToStr(idOf(r))}
                reports == {i \in 1..Len(validationErrors) :
                               /\ validationErrors[i].entity = e
                               /\ validationErrors[i].rowIndex = r - 1
                               /\ validationErrors[i].field = "id"}
            IN  IF named(r) /\ earlier # {}
                THEN /\ Cardinality(reports) = 1
                     /\ \A i \in reports :
                           /\ validationErrors[i].level = "error"
                           /\ validationErrors[i].message =
                                  "Duplicate ID \"" \o ToStr(idOf(r)) \o "\" also found at row "
                                      \o IntToStr(Min(earlier))
                ELSE reports = {}

\* A third row repeats the id of the first two, beside other entities holding
\* the same id, and the pass has run.
C3_Witness ==
    /\ ~effectPending
    /\ Len(sheets["tasks"].jsonData) = 3
    /\ \A r \in 1..3 : getNormalizedValue(sheets["tasks"].jsonData[r], <<"id">>) = Str("T1")
    /\ getNormalizedValue(sheets["clients"].jsonData[1], <<"id">>) = Str("T1")
    /\ \E d \in Range(validationErrors) :
          d.id = "tasks-2-id-Duplicate ID \"T1\" also found at row 1"

\* C4: after a pass, for every active coRun rule of at least two tasks, the
\* list holds exactly one "Circular dependency" error if the graph
\* task -> dependency restricted to the tasks of the rule has a cycle, and none
\* if it has no cycle. (Every scenario holds one rule.)
C4_CycleDetection ==
    ~effectPending =>
        \A r \in 1..Len(rules) :
            (rules[r].type = "coRun" /\ rules[r].active /\ Len(rules[r].tasks) > 1) =>
                LET tasks == sheets["tasks"].jsonData
                    members == {ToStr(rules[r].tasks[i]) : i \in 1..Len(rules[r].tasks)}
                    Edge(a, b) ==
                        \E t \in 1..Len(tasks) :
                            /\ ToStr(getNormalizedValue(tasks[t], <<"id", "taskId">>)) = a
                            /\ b \in Range(parseArrayString(getNormalizedValue(tasks[t],
                                           <<"dependencies", "dependsOn">>)).result)
                    cyclic ==
                        \E k \in 1..Cardinality(members) : \E path \in [1..k -> members] :
                            /\ \A j \in 1..(k - 1) : Edge(path[j], path[j + 1])
                            /\ Edge(path[k], path[1])
                    reports == {i \in 1..Len(validationErrors) :
                                   /\ validationErrors[i].field = "Rules"
                                   /\ startsWith(validationErrors[i].message,
                                                 "Circular dependency")}
                IN  Cardinality(reports) = IF cyclic THEN 1 ELSE 0

C6_SkillCoverage ==
    ~effectPending =>
        LET tasks == sheets["tasks"].jsonData
            workers == sheets["workers"].jsonData
            required == UNION {Range(parseArrayString(getNormalizedValue(tasks[t],
                                   <<"skills", "requiredSkills">>)).result) :
                               t \in 1..Len(tasks)}
            provided == UNION {Range(parseArrayString(getNormalizedValue(workers[w],
                                   <<"skills", "workerSkills">>)).result) :
                               w \in 1..Len(workers)}
            Message(s) == "Skill \"" \o s
                              \o "\" is required by tasks but not provided by any worker."
            reports == {i \in 1..Len(validationErrors) :
                           validationErrors[i].field = "Skill Coverage"}
        IN  /\ \A s \in required \ provided :
                  Cardinality({i \in reports : validationErrors[i].message = Message(s)}) = 1
            /\ \A i \in reports :
                  /\ validationErrors[i].level = "warning"
                  /\ validationErrors[i].rowIndex = 0 - 1
                  /\ \E s \in required \ provided : validationErrors[i].message = Message(s)

\* The pass has run over two tasks that both require skill b, one of them
\* twice, and a worker that provides only a.
C6_Witness ==
    /\ ~effectPending
    /\ Len(sheets["tasks"].jsonData) = 2
    /\ getNormalizedValue(sheets["tasks"].jsonData[1], <<"requiredSkills">>) = Str("b,b")
    /\ getNormalizedValue(sheets["tasks"].jsonData[2], <<"requiredSkills">>) = Str("a,b")
    /\ getNormalizedValue(sheets["workers"].jsonData[1], <<"skills">>) = Str("a")
    /\ \E d \in Range(validationErrors) : d.field = "Skill Coverage" /\ d.level = "warning"

-----------------------------------------------------------------------------
(* parsePhaseString and parseArrayString on the values a cell can hold *)

\* The longest cell text, its brackets aside, and the longest array value.
MaxLen == 3

RECURSIVE TextsUpTo(_)
\* Every text of at most n characters among digits, a letter, dash, comma and
\* blank.
TextsUpTo(n) ==
    IF n = 0 THEN {""}
    ELSE TextsUpTo(n - 1)
             \cup {s \o c : s \in TextsUpTo(n - 1), c \in {"1", "3", "a", "-", ",", " "}}

\* The lists of at most MaxItems strings: plain tokens, an empty string, one
\* with a blank edge, one with a comma, one in brackets.
StringLists == {<<>>} \cup RowsUpTo({"a", "b", "1", "", " a", "a,b", "[a]"}, MaxItems)

\* The texts of a list of strings: joined with commas, joined with newlines,
\* and as JSON.stringify writes it (the strings here hold no character that
\* JSON escapes).
ListForms(xs) ==
    {join(xs, ","), join(xs, "\n"),
     "[" \o join([i \in 1..Len(xs) |-> "\"" \o xs[i] \o "\""], ",") \o "]"}

InitParse ==
    /\ sheets = EmptySheets
    /\ rules = <<>>
    /\ validationErrors = <<>>
    /\ validationProgress = 0
    /\ isLoading = TRUE
    /\ isFixingWithAI = FALSE
    /\ localStorage = [e \in Entities |-> [has |-> FALSE, json |-> <<>>]]
    /\ effectPending = FALSE
    /\ fixCall = NoFixCall
    /\ now = 0
    /\ arg \in {Str(s) : s \in TextsUpTo(MaxLen) \cup {"[1,2,3]"}}
                 \cup {Str("[" \o s \o "]") : s \in TextsUpTo(MaxLen)}
                 \cup {Arr(a) : a \in RowsUpTo({Num(1), Str("2"), Str("a")}, MaxLen)}
    /\ ret = Undef

\* One call parsePhaseString(arg).
ParsePhase ==
    /\ ret = Undef
    /\ ret' = parsePhaseString(arg)
    /\ UNCHANGED <<sheets, rules, validationErrors, validationProgress, isLoading,
                   isFixingWithAI, localStorage, effectPending, fixCall, now, arg>>

SpecParse == InitParse /\ [][ParsePhase]_vars

InitArray ==
    /\ sheets = EmptySheets
    /\ rules = <<>>
    /\ validationErrors = <<>>
    /\ validationProgress = 0
    /\ isLoading = TRUE
    /\ isFixingWithAI = FALSE
    /\ localStorage = [e \in Entities |-> [has |-> FALSE, json |-> <<>>]]
    /\ effectPending = FALSE
    /\ fixCall = NoFixCall
    /\ now = 0
    /\ arg \in {Str(s) : s \in UNION {ListForms(xs) : xs \in StringLists}}
                 \cup {Arr([i \in 1..Len(xs) |-> Str(xs[i])]) : xs \in StringLists}
    /\ ret = Undef

\* One call parseArrayString(arg).
ParseArray ==
    /\ ret = Undef
    /\ ret' = parseArrayString(arg)
    /\ UNCHANGED <<sheets, rules, validationErrors, validationProgress, isLoading,
                   isFixingWithAI, localStorage, effectPending, fixCall, now, arg>>

SpecArray == InitArray /\ [][ParseArray]_vars

\* C10: parsePhaseString on a text "start-end" whose start and end are numerals
\* with start <= end returns the integers start..end and no error; on any
\* other text that holds '-' (and is no array literal) it returns the
\* invalid-range error; on "[1,2,3]" it returns 1, 2, 3 and no error.
C10_RangeForm ==
    ret # Undef =>
        LET text == trim(arg.s)
            parts == TrimAll(split(text, "-"))
            isRange == /\ Len(parts) = 2
                       /\ AllDigits(parts[1])
                       /\ AllDigits(parts[2])
                       /\ DigitsValue(parts[1], 1, 0) <= DigitsValue(parts[2], 1, 0)
            first == DigitsValue(parts[1], 1, 0)
            last == DigitsValue(parts[2], 1, 0)
        IN  /\ (includes(text, "-") /\ ~Enclosed(text, "[", "]")) =>
                  IF isRange
                  THEN ret = [result |-> [i \in 1..(last - first + 1) |-> first + i - 1],
                              error |-> NoError]
                  ELSE ret = [result |-> <<>>,
                              error |-> "Invalid range format (e.g., \"1-5\")."]
            /\ arg.s = "[1,2,3]" => ret = [result |-> <<1, 2, 3>>, error |-> NoError]

\* C11: parsePhaseString on a value that holds a token which is no number
\* returns an error and an empty result: an array with such an element, an
\* array literal with such an element, or a comma-separated text (without '-')
\* with such an item.
C11_AllOrNothing ==
    ret # Undef =>
        LET text == IF arg.t = "str" THEN trim(arg.s) ELSE ""
            parsed == IF Enclosed(text, "[", "]") THEN JSONparse(text) ELSE JsonFail
            items == SelectSeq(TrimAll(split(text, ",")), LAMBDA s : s # "")
            nonNumeric ==
                \/ arg.t = "arr" /\ \E i \in 1..Len(arg.a) : isNaN(ToNumber(arg.a[i]))
                \/ /\ parsed.ok
                   /\ parsed.v.t = "arr"
                   /\ \E i \in 1..Len(parsed.v.a) : isNaN(ToNumber(parsed.v.a[i]))
                \/ /\ arg.t = "str"
                   /\ ~Enclosed(text, "[", "]")
                   /\ ~includes(text, "-")
                   /\ \E i \in 1..Len(items) : isNaN(StringToNumber(items[i]))
        IN  nonNumeric => (ret.error # NoError /\ ret.result = <<>>)

\* C12, as stated: for every list of strings xs, parseArrayString on xs joined
\* with commas, on xs joined with newlines and on the array literal of xs
\* returns xs and no error.
C12_RoundTrip ==
    (ret # Undef /\ arg.t = "str") =>
        \A xs \in StringLists :
            arg.s \in ListForms(xs) => ret = [result |-> xs, error |-> NoError]

\* C12, amended: parseArrayString on the array literal of any list of strings
\* xs returns xs and no error; on xs joined with commas or with newlines it
\* returns xs and no error when every string of xs is non-empty, has no blank
\* at either end and holds neither comma nor newline, and the joined text is
\* not enclosed in brackets.
C12_RoundTripOfTokens ==
    (ret # Undef /\ arg.t = "str") =>
        \A xs \in StringLists :
            LET literal == "[" \o join([i \in 1..Len(xs) |-> "\"" \o xs[i] \o "\""], ",") \o "]"
                tokens == \A i \in 1..Len(xs) :
                             /\ xs[i] # ""
                             /\ trim(xs[i]) = xs[i]
                             /\ ~includes(xs[i], ",")
                             /\ ~includes(xs[i], "\n")
            IN  /\ arg.s = literal => ret = [result |-> xs, error |-> NoError]
                /\ (/\ tokens
                    /\ arg.s \in {join(xs, ","), join(xs, "\n")}
                    /\ ~Enclosed(arg.s, "[", "]"))
                      => ret = [result |-> xs, error |-> NoError]

\* A list of two tokens joined with a newline came back as the list.
C12_Witness ==
    /\ arg = Str("a\nb")
    /\ ret = [result |-> <<"a", "b">>, error |-> NoError]

-----------------------------------------------------------------------------
(* The stages of one validation pass *)

totalValidationSteps == 6

\* Math.floor((completedSteps / totalValidationSteps) * 100)
ProgressFloor(completedSteps) == (completedSteps * 100) \div totalValidationSteps

\* Math.round((completedSteps / totalValidationSteps) * 100)
ProgressAfter(completedSteps) ==
    (2 * completedSteps * 100 + totalValidationSteps) \div (2 * totalValidationSteps)

\* What validateAllData pushes to allErrors between two reports of progress.
StageErrors(step, currentSheets, ruleList) ==
    CASE step = 1 -> SchemaErrors(currentSheets)
      [] step = 2 -> DuplicateErrors(currentSheets)
      [] step = 3 -> RowErrors(currentSheets)
      [] step = 4 -> <<>>
      [] step = 5 -> PhaseErrors(currentSheets)
      [] OTHER -> SkillErrors(currentSheets) \o CoRunErrors(currentSheets, ruleList)
                      \o SlotRestrictionErrors(currentSheets, ruleList)

\* The effect calls validateAllData(sheets): setValidationProgress(0); arg holds
\* the frame of the call in progress.
BeginValidation ==
    /\ effectPending
    /\ ~isLoading
    /\ arg = Undef
    /\ arg' = [currentSheets |-> sheets, completedSteps |-> 0, allErrors |-> <<>>]
    /\ validationProgress' = 0
    /\ UNCHANGED <<sheets, rules, validationErrors, isLoading, isFixingWithAI, localStorage,
                   effectPending, fixCall, now, ret>>

\* One stage, then completedSteps++ and setValidationProgress(...).
CompleteStage ==
    /\ arg # Undef
    /\ arg.completedSteps < totalValidationSteps
    /\ arg' = [arg EXCEPT !.completedSteps = @ + 1,
                          !.allErrors = @ \o StageErrors(arg.completedSteps + 1,
                                                         arg.currentSheets, rules)]
    /\ validationProgress' = ProgressAfter(arg.completedSteps + 1)
    /\ UNCHANGED <<sheets, rules, validationErrors, isLoading, isFixingWithAI, localStorage,
                   effectPending, fixCall, now, ret>>

\* setValidationErrors(allErrors); setValidationProgress(100)
PublishValidation ==
    /\ arg # Undef
    /\ arg.completedSteps = totalValidationSteps
    /\ validationErrors' = arg.allErrors
    /\ validationProgress' = 100
    /\ effectPending' = FALSE
    /\ arg' = Undef
    /\ UNCHANGED <<sheets, rules, isLoading, isFixingWithAI, localStorage, fixCall, now, ret>>

SpecStages ==
    InitLoaded(PriorityScenarios) /\ [][BeginValidation \/ CompleteStage \/ PublishValidation]_vars

\* C13: the progress value is always within 0..100; while a pass runs it never
\* decreases; the pass reports it after each of its six stages, as the
\* nearest integer to k/6 of 100 after the k-th; and it is 100 when the pass
\* has published its diagnostics.
C13_Progress ==
    /\ [](validationProgress \in 0..100)
    /\ [][arg # Undef => validationProgress' >= validationProgress]_vars
    /\ [][(arg # Undef /\ arg' # Undef) =>
             /\ arg'.completedSteps = arg.completedSteps + 1
             /\ arg'.completedSteps \in 1..6
             /\ 6 * validationProgress' - 100 * arg'.completedSteps \in -3..3]_vars
    /\ [][effectPending /\ ~effectPending' =>
             /\ arg.completedSteps = 6
             /\ validationProgress' = 100
             /\ validationErrors' = validateAllData(sheets, rules)]_vars

\* Three stages are done and the progress reported is 50.
C13_Witness ==
    /\ arg # Undef
    /\ arg.completedSteps = 3
    /\ validationProgress = 50

-----------------------------------------------------------------------------
(* Row validation and the schema check over rows of several faults *)

\* The rule of a scenario, with the fields addRule gives it.
Rule(id, type, active, tasks, clientGroup) ==
    [id |-> id, type |-> type, active |-> active, tasks |-> tasks,
     clientGroup |-> clientGroup, workerGroup |-> Undef]

\* Rows whose fields fail together or apart. In turn: two clients of varied
\* priorityLevel and requestedTasks over the tasks T1 and 1; one worker of
\* varied availableSlots, maxLoadPerPhase and skills; one task of varied
\* priority, duration, preferredPhases, maxConcurrent and requiredSkills; one
\* task of varied maxConcurrent and requiredSkills over two workers; two
\* mutually dependent tasks under up to two rules; and one row of one entity
\* with a column AttributesJSON of varied cells (texts, a number, a boolean, an
\* array, an object); and a client and a worker of varied group tags under one
\* slotRestriction rule of varied groups.
RowScenarios ==
    {Scenario([i \in 1..2 |-> <<KV("id", Str("C" \o IntToStr(i))),
                                KV("priorityLevel", cells[i][1]),
                                KV("requestedTasks", cells[i][2])>>],
              OneWorker, << <<KV("id", Str("T1"))>>, <<KV("id", Num(1))>> >>, <<>>) :
        cells \in [1..2 -> {Num(3), Num(7)}
                      \X {Undef, Str("T1"), Str("1"), Str("T1, T9"), Str("T9,T9"),
                          Str("[\"T9\",\"T1\"]"), Str("[x]")}]}
    \cup
    {Scenario(OneClient,
              << <<KV("id", Str("W1")), KV("availableSlots", slots),
                   KV("maxLoadPerPhase", maxLoad), KV("skills", skills)>> >>,
              << <<KV("id", Str("T1"))>> >>, <<>>) :
        slots \in {Str("1,2"), Str("a"), Str("[x]")}, maxLoad \in {Undef, Num(1), Num(5)},
        skills \in {Str("a"), Str("[x]")}}
    \cup
    {Scenario(OneClient, << <<KV("id", Str("W1")), KV("availableSlots", Str("1")),
                              KV("skills", Str("a"))>> >>,
              << <<KV("id", Str("T1")), KV("priority", priority), KV("duration", duration),
                   KV("preferredPhases", phases), KV("maxConcurrent", maxConcurrent),
                   KV("requiredSkills", required)>> >>, <<>>) :
        priority \in {Num(3), Num(0)}, duration \in {Num(1), Num(0)},
        phases \in {Str("1-2"), Str("2-1"), Str("0")}, maxConcurrent \in {Undef, Num(2)},
        required \in {Str("a"), Str("[x]")}}
    \cup
    {Scenario(OneClient,
              << <<KV("id", Str("W1")), KV("availableSlots", Str("1")), KV("skills", Str("a"))>>,
                 <<KV("id", Str("W2")), KV("availableSlots", slots), KV("skills", skills)>> >>,
              << <<KV("id", Str("T1")), KV("maxConcurrent", maxConcurrent),
                   KV("requiredSkills", required)>> >>, <<>>) :
        slots \in {Str("1"), Str("")}, skills \in {Str("a"), Str("a,b")},
        maxConcurrent \in {Undef, Num(0), Num(1), Num(2), Num(3), Str("2"), Str("x")},
        required \in {Undef, Str("a"), Str("b"), Str("a,b"), Str("[x]")}}
    \cup
    {Scenario(OneClient, OneWorker,
              << <<KV("id", Str("T1")), KV("dependencies", Str("T2"))>>,
                 <<KV("id", Str("T2")), KV("dependencies", Str("T1"))>> >>,
              [i \in 1..Len(kinds) |->
                  IF kinds[i][1] = "coRun"
                  THEN Rule("rule-" \o IntToStr(i), "coRun", kinds[i][2],
                            <<Str("T1"), Str("T2")>>, Undef)
                  ELSE Rule("rule-" \o IntToStr(i), "slotRestriction", kinds[i][2], <<>>,
                            Str("vip"))]) :
        kinds \in {<<>>} \cup RowsUpTo({"coRun", "slotRestriction"} \X BOOLEAN, 2)}
    \cup
    {[sheets |-> [e \in Entities |->
                     Sheet(<< <<KV("id", Str("X1"))>>
                              \o (IF e = entity THEN <<KV("AttributesJSON", cell)>>
                                  ELSE <<>>) >>)],
      rules |-> <<>>] :
        entity \in Entities,
        cell \in {Undef, Str(""), Str(" "), Str("{}"), Str(" {\"a\":1} "), Str("{a}"),
                  Str("x"), Str("[1]"), Str("5"), Str("{\"a\":1"), Num(5),
                  [t |-> "bool", b |-> TRUE], Arr(<<Num(1)>>), JSONparse("{\"a\":1}").v}}
    \cup
    {Scenario(<< <<KV("id", Str("C1")), KV("groupTag", tags[1])>> >>,
              << <<KV("id", Str("W1")), KV("workerGroup", tags[2])>> >>,
              << <<KV("id", Str("T1"))>> >>,
              <<[Rule("rule-1", "slotRestriction", active, <<>>, groups[1])
                     EXCEPT !.workerGroup = groups[2]]>>) :
        tags \in {Undef, Str("vip"), Num(1)} \X {Undef, Str("w"), Str("vip")},
        active \in BOOLEAN,
        groups \in {Undef, Str(""), Str("vip"), Str("1")} \X {Undef, Str("w"), Str("x")}}

\* One entity holds a first row with any of five column names of its fields,
\* alone or followed by a row with every required column, or holds no row; the
\* two others hold rows with every required column.
HeaderScenarios ==
    LET names == [clients |-> <<"ID", "priority", "Priority Level", "priorityLevel",
                                "requestedTasks">>,
                  workers |-> <<"id", "slots", "availableSlots", "maxLoad",
                                "maxLoadPerPhase">>,
                  tasks |-> <<"TaskID", "duration", "Skills", "RequiredSkills",
                              "requiredSkills">>]
        Row(columns) == [i \in 1..Len(columns) |-> KV(columns[i], Str("3"))]
    IN  UNION {
          {[sheets |->
               [e \in Entities |->
                   IF e # entity THEN Sheet(<<Row(REQUIRED_COLUMNS[e])>>)
                   ELSE Sheet(SubSeq(<<Row(SelectSeq(names[e], LAMBDA n : n \in keys)),
                                       Row(REQUIRED_COLUMNS[e])>>, 1, rows))],
            rules |-> <<>>] :
              rows \in 0..2, keys \in SUBSET Range(names[entity])} :
          entity \in Entities}

\* generateRulesConfig: the button is disabled while there is no rule; the
\* document it downloads is held in ret, its timestamp being the clock.
\* rules: activeRules.map(({ id, ...rest }) => rest)
generateRulesConfig ==
    /\ Len(rules) > 0
    /\ ret = Undef
    /\ ret' = [version |-> "1.0", timestamp |-> now,
               rules |-> [i \in 1..Len(SelectSeq(rules, LAMBDA r : r.active)) |->
                             [k \in DOMAIN rules[1] \ {"id"} |->
                                 SelectSeq(rules, LAMBDA r : r.active)[i][k]]]]
    /\ UNCHANGED <<sheets, rules, validationErrors, validationProgress, isLoading,
                   isFixingWithAI, localStorage, effectPending, fixCall, now, arg>>

SpecRows ==
    (InitLoaded(RowScenarios) \/ InitLoaded(HeaderScenarios))
        /\ [][RunValidation \/ generateRulesConfig]_vars

C17_SchemaCheck ==
    ~effectPending =>
        \A e \in Entities :
            LET required == [clients |-> <<"id", "priorityLevel">>,
                             workers |-> <<"id", "availableSlots", "maxLoadPerPhase">>,
                             tasks |-> <<"id", "duration", "requiredSkills">>][e]
                missing ==
                    SelectSeq(required, LAMBDA col :
                        ~\E h \in Range(sheets[e].headers) :
                            normalizeFieldName(h) = normalizeFieldName(col))
                schema == {i \in 1..Len(validationErrors) :
                              validationErrors[i].entity = e /\ validationErrors[i].field = "File"}
            IN  IF Len(sheets[e].jsonData) = 0 \/ missing = <<>> THEN schema = {}
                ELSE /\ Cardinality(schema) = 1
                     /\ \A i \in schema :
                           /\ validationErrors[i].rowIndex = 0 - 1
                           /\ validationErrors[i].level = "error"
                           /\ validationErrors[i].message
                                  = "Missing required columns: " \o join(missing, ", ")

\* A pass over workers whose first row is headed id, slots, maxLoad: one error
\* lists the two missing columns.
C17_Witness ==
    /\ ~effectPending
    /\ sheets["workers"].headers = <<"id", "slots", "maxLoad">>
    /\ \E d \in Range(validationErrors) :
          /\ d.entity = "workers" /\ d.rowIndex = 0 - 1
          /\ d.message = "Missing required columns: availableSlots, maxLoadPerPhase"
    /\ Cardinality({i \in 1..Len(validationErrors) :
                       validationErrors[i].entity = "workers"
                           /\ validationErrors[i].field = "File"}) = 1

\* C18: a clients record set whose rows name the priority by one of the headers
\* "priority", "Priority Level" and "priorityLevel" gets, from every stage of
\* the pass, the diagnostics of the same record set with that column headed
\* "priorityLevel".
C18_AliasEquivalence ==
    ~effectPending =>
        LET aliases == {"priority", "Priority Level", "priorityLevel"}
            clients == sheets["clients"].jsonData
            Renamed(row) ==
                [i \in 1..Len(row) |->
                    IF row[i].k \in aliases THEN KV("priorityLevel", row[i].v) ELSE row[i]]
        IN  (\A r \in 1..Len(clients) :
                 Cardinality({i \in 1..Len(clients[r]) : clients[r][i].k \in aliases}) <= 1)
            => validationErrors
                   = validateAllData(
                         [sheets EXCEPT !["clients"] =
                             Sheet([r \in 1..Len(clients) |-> Renamed(clients[r])])],
                         rules)

\* C19: after a pass, for every clients row whose requestedTasks cell parses
\* without error and every id the parsed list holds, the row has the error
\* 'Task ID "<id>" not found.' if and only if no tasks row has an id/taskId
\* whose text is that id; and the row has as many 'not found' errors as the
\* list has positions holding such an id.
C19_RequestedTasksExist ==
    ~effectPending =>
        \A r \in 1..Len(sheets["clients"].jsonData) :
            LET requested ==
                    parseArrayString(getNormalizedValue(sheets["clients"].jsonData[r],
                                                        <<"requestedTasks", "requestedTaskIDs">>))
                Carried(id) ==
                    \E t \in 1..Len(sheets["tasks"].jsonData) :
                        ToStr(getNormalizedValue(sheets["tasks"].jsonData[t],
                                                 <<"id", "taskId">>)) = id
                NotFound(message) ==
                    {i \in 1..Len(validationErrors) :
                        /\ validationErrors[i].entity = "clients"
                        /\ validationErrors[i].rowIndex = r - 1
                        /\ validationErrors[i].field = "requestedTasks"
                        /\ validationErrors[i].level = "error"
                        /\ IF message = "" THEN endsWith(validationErrors[i].message, " not found.")
                           ELSE validationErrors[i].message = message}
            IN  requested.error = NoError =>
                    /\ \A i \in 1..Len(requested.result) :
                           NotFound("Task ID \"" \o requested.result[i] \o "\" not found.") # {}
                               <=> ~Carried(requested.result[i])
                    /\ Cardinality(NotFound(""))
                           = Cardinality({i \in 1..Len(requested.result) :
                                             ~Carried(requested.result[i])})

\* A pass over a client that lists T9 and T1 as a JSON array, and a client that
\* lists 1, over the tasks T1 and 1: only T9 is reported.
C19_Witness ==
    /\ ~effectPending
    /\ Len(sheets["clients"].jsonData) = 2
    /\ getNormalizedValue(sheets["clients"].jsonData[1], <<"requestedTasks">>)
           = Str("[\"T9\",\"T1\"]")
    /\ getNormalizedValue(sheets["clients"].jsonData[2], <<"requestedTasks">>) = Str("1")
    /\ {d.message : d \in {e \in Range(validationErrors) : e.field = "requestedTasks"}}
           = {"Task ID \"T9\" not found."}

\* C20, as stated: after a pass, every tasks row with a truthy maxConcurrent has
\* a 'MaxConcurrent' error if and only if maxConcurrent is greater than the
\* number of workers rows whose skills hold every required skill of the task and
\* whose availableSlots list is not empty.
C20_MaxConcurrent ==
    ~effectPending =>
        \A r \in 1..Len(sheets["tasks"].jsonData) :
            LET row == sheets["tasks"].jsonData[r]
                maxConcurrent == getNormalizedValue(row, <<"maxConcurrent", "maxConcurrentTasks">>)
                required == parseArrayString(getNormalizedValue(row, <<"skills", "requiredSkills">>))
                Skills(w) == parseArrayString(getNormalizedValue(w, <<"skills", "workerSkills">>)).result
                Slots(w) == parseArrayString(getNormalizedValue(w, <<"availableSlots", "slots">>)).result
                count == Cardinality({w \in 1..Len(sheets["workers"].jsonData) :
                            /\ Range(required.result) \subseteq Range(Skills(sheets["workers"].jsonData[w]))
                            /\ Slots(sheets["workers"].jsonData[w]) # <<>>})
                reported == \E d \in Range(validationErrors) :
                                /\ d.entity = "tasks" /\ d.rowIndex = r - 1
                                /\ d.field = "maxConcurrent"
                                /\ startsWith(d.message, "MaxConcurrent")
            IN  Truthy(maxConcurrent) =>
                    (reported <=> (ToNumber(maxConcurrent).t = "num"
                                     /\ ToNumber(maxConcurrent).n > count))

\* C20, for the rows whose requiredSkills cell parses: such a row with a truthy
\* maxConcurrent has the 'MaxConcurrent' error, naming maxConcurrent and the
\* count, if and only if maxConcurrent is greater than the count of qualified
\* workers with slots; a row whose requiredSkills cell does not parse, or whose
\* maxConcurrent is not truthy, has no such error, and the former has the parse
\* error under the field skills.
C20_MaxConcurrentOfParsed ==
    ~effectPending =>
        \A r \in 1..Len(sheets["tasks"].jsonData) :
            LET row == sheets["tasks"].jsonData[r]
                maxConcurrent == getNormalizedValue(row, <<"maxConcurrent", "maxConcurrentTasks">>)
                required == parseArrayString(getNormalizedValue(row, <<"skills", "requiredSkills">>))
                Skills(w) == parseArrayString(getNormalizedValue(w, <<"skills", "workerSkills">>)).result
                Slots(w) == parseArrayString(getNormalizedValue(w, <<"availableSlots", "slots">>)).result
                count == Cardinality({w \in 1..Len(sheets["workers"].jsonData) :
                            /\ Range(required.result) \subseteq Range(Skills(sheets["workers"].jsonData[w]))
                            /\ Slots(sheets["workers"].jsonData[w]) # <<>>})
                About(field) == {d.message : d \in {e \in Range(validationErrors) :
                                    e.entity = "tasks" /\ e.rowIndex = r - 1 /\ e.field = field}}
            IN  IF ~Truthy(maxConcurrent) THEN About("maxConcurrent") = {}
                ELSE IF required.error # NoError
                THEN About("maxConcurrent") = {} /\ About("skills") = {required.error}
                ELSE About("maxConcurrent")
                       = IF ToNumber(maxConcurrent).t = "num" /\ ToNumber(maxConcurrent).n > count
                         THEN {"MaxConcurrent (" \o ToStr(maxConcurrent)
                                   \o ") > qualified, available workers (" \o IntToStr(count)
                                   \o ")."}
                         ELSE {}

\* A pass over a task of maxConcurrent 2 that requires a and b, and two workers
\* with slots of whom one has both skills: the error names 2 and 1.
C20_Witness ==
    /\ ~effectPending
    /\ Len(sheets["workers"].jsonData) = 2
    /\ getNormalizedValue(sheets["tasks"].jsonData[1], <<"requiredSkills">>) = Str("a,b")
    /\ \E d \in Range(validationErrors) :
          /\ d.entity = "tasks" /\ d.rowIndex = 0
          /\ d.message = "MaxConcurrent (2) > qualified, available workers (1)."

\* C21: after a pass, for every row and every column of it whose normalized
\* name contains "json", the row has an error on that column if and only if
\* the cell is neither empty (undefined, or a text that is blank) nor a JSON
\* object (an object, or a text that parses as one).
C21_JsonColumns ==
    ~effectPending =>
        \A e \in Entities : \A r \in 1..Len(sheets[e].jsonData) :
            \A i \in 1..Len(sheets[e].jsonData[r]) :
                LET cell == sheets[e].jsonData[r][i]
                    empty == cell.v.t = "undef" \/ (cell.v.t = "str" /\ trim(cell.v.s) = "")
                    object ==
                        \/ cell.v.t = "obj"
                        \/ /\ cell.v.t = "str"
                           /\ JSONparse(trim(cell.v.s)).ok
                           /\ JSONparse(trim(cell.v.s)).v.t = "obj"
                    reported == \E d \in Range(validationErrors) :
                                    /\ d.entity = e /\ d.rowIndex = r - 1
                                    /\ d.field = cell.k /\ d.level = "error"
                IN  includes(normalizeFieldName(cell.k), "json")
                        => (reported <=> (~empty /\ ~object))

\* C22: after a pass, the slot-restriction diagnostics are warnings of field
\* "Rules" at rowIndex -1: one
\* on clients for every active slotRestriction rule whose clientGroup is set and
\* is the text of no clients row's groupTag/clientGroup cell, and one on workers
\* for every such rule whose workerGroup is set and is the text of no workers
\* row's workerGroup/groupTag cell; a rule with a group that a row carries, an
\* inactive rule and a rule naming no group add none.
C22_SlotRestriction ==
    ~effectPending =>
        LET Carried(entity, names, group) ==
                \E r \in 1..Len(sheets[entity].jsonData) :
                    ToStr(getNormalizedValue(sheets[entity].jsonData[r], names)) = ToStr(group)
            Warning(entity, kind, group) ==
                [entity |-> entity, rowIndex |-> 0 - 1, field |-> "Rules", level |-> "warning",
                 message |-> "Slot Restriction rule references non-existent " \o kind
                                 \o " group: " \o ToStr(group) \o "."]
            Published ==
                {[entity |-> d.entity, rowIndex |-> d.rowIndex, field |-> d.field,
                  level |-> d.level, message |-> d.message] :
                    d \in {e \in Range(validationErrors) :
                              startsWith(e.message, "Slot Restriction")}}
            restrictions == {i \in 1..Len(rules) :
                                rules[i].type = "slotRestriction" /\ rules[i].active}
        IN  Published
              = {Warning("clients", "client", rules[i].clientGroup) :
                    i \in {j \in restrictions :
                             /\ Truthy(rules[j].clientGroup)
                             /\ ~Carried("clients", <<"groupTag", "clientGroup">>,
                                         rules[j].clientGroup)}}
                \cup
                {Warning("workers", "worker", rules[i].workerGroup) :
                    i \in {j \in restrictions :
                             /\ Truthy(rules[j].workerGroup)
                             /\ ~Carried("workers", <<"workerGroup", "groupTag">>,
                                         rules[j].workerGroup)}}

\* A pass over a client tagged 1 and a worker of group w under an active rule
\* for the client group "1" and the worker group "x": only the worker group is
\* reported.
C22_Witness ==
    /\ ~effectPending
    /\ Len(rules) = 1
    /\ rules[1].clientGroup = Str("1")
    /\ rules[1].workerGroup = Str("x")
    /\ getNormalizedValue(sheets["clients"].jsonData[1], <<"groupTag">>) = Num(1)
    /\ {d.message : d \in {e \in Range(validationErrors) : e.field = "Rules"}}
           = {"Slot Restriction rule references non-existent worker group: x."}

\* C23: the document generateRulesConfig produces holds, in order, one entry
\* for each rule of the rule list, with the type, the parameters and the active
\* flag of the rule, and without its id.
C23_RuleExport ==
    ret # Undef =>
        /\ Len(ret.rules) = Len(rules)
        /\ \A i \in 1..Len(ret.rules) :
              /\ i <= Len(rules)
              /\ "id" \notin DOMAIN ret.rules[i]
              /\ \A k \in DOMAIN rules[i] \ {"id"} :
                    k \in DOMAIN ret.rules[i] /\ ret.rules[i][k] = rules[i][k]

\* C25: in the list a pass publishes, no two diagnostics have the same id.
C25_UniqueIds ==
    ~effectPending =>
        \A i, j \in 1..Len(validationErrors) :
            validationErrors[i].id = validationErrors[j].id => i = j

-----------------------------------------------------------------------------
(* The upload page: arg holds uploadedEntities, ret holds uploadedFile *)

\* The files a user selects or drops: a name, the text file.text() gives and
\* the sheets XLSX.read and sheet_to_json give, in the order of SheetNames.
\* No text holds a double quote and no header line names a column twice.
UploadFiles ==
    {[name |-> "notes.txt", content |-> "x", workbook |-> <<>>]}
    \cup {[name |-> "Data.CSV", content |-> content, workbook |-> <<>>] :
             content \in {"", "ClientID,PriorityLevel", "ClientID,PriorityLevel\nC1,3",
                          "ClientID,PriorityLevel\nC2,5\nC3", "WorkerID,Skills\nW1,a",
                          "TaskID,Duration\nT1,1", "id,name\nX,y"}}
    \cup {[name |-> "data.xlsx", content |-> "",
           workbook |-> [i \in 1..Len(names) |->
                            [name |-> names[i], jsonData |-> << <<KV("id", Num(i))>> >>]]] :
             names \in {SelectSeq(<<"Clients", "Workers Sheet", "Tasks", "Notes">>,
                                  LAMBDA n : n \in chosen) :
                           chosen \in SUBSET {"Clients", "Workers Sheet", "Tasks", "Notes"}}
                       \cup {<<"Tasks", "Workers Sheet", "Clients">>,
                             <<"Clients", "Old clients">>}}

\* processFile(file) of the upload page, from the click or drop to the state
\* it publishes in uploadedFile.
processFile(file) ==
    LET lower(c) == IF c \in CharsOf(UpperLetters) THEN NormalizedChar(c) ELSE c
        parts == split(file.name, ".")
        fileExtension == MapChars(lower, parts[Len(parts)], 1)
        normalizeSheetName(name) == MapChars(NormalizedChar, name, 1)
        matchSheetToEntity(sheetName) ==
            IF includes(normalizeSheetName(sheetName), "client") THEN "clients"
            ELSE IF includes(normalizeSheetName(sheetName), "worker") THEN "workers"
            ELSE IF includes(normalizeSheetName(sheetName), "task") THEN "tasks"
            ELSE ""
        \* parseCSV(content)
        lines == SelectSeq(split(file.content, "\n"), LAMBDA line : trim(line) # "")
        headers == IF Len(lines) < 1 THEN <<>> ELSE TrimAll(split(lines[1], ","))
        Values(line) == TrimAll(split(line, ","))
        data == IF Len(lines) < 1 THEN <<>>
                ELSE [r \in 1..(Len(lines) - 1) |->
                        [i \in 1..Len(headers) |->
                            KV(headers[i], Str(IF i <= Len(Values(lines[r + 1]))
                                               THEN Values(lines[r + 1])[i] ELSE ""))]]
        Has(keywords) ==
            \E keyword \in keywords, i \in 1..Len(headers) :
                includes(normalizeSheetName(headers[i]), keyword)
        entityType ==
            IF Has({"client", "customer", "account", "company"}) THEN "clients"
            ELSE IF Has({"worker", "employee", "staff", "personnel", "agent"}) THEN "workers"
            ELSE IF Has({"task", "project", "activity", "job", "assignment"}) THEN "tasks"
            ELSE ""
        \* the loop over sheetNames: a later sheet of an entity replaces an
        \* earlier one, in foundEntities and in storage
        SheetsOf(entity) ==
            {i \in 1..Len(file.workbook) : matchSheetToEntity(file.workbook[i].name) = entity}
        Last(S) == CHOOSE i \in S : \A j \in S : j <= i
        afterLoop == [entity \in Entities |->
                         IF SheetsOf(entity) = {} THEN localStorage[entity]
                         ELSE StoredItem(file.workbook[Last(SheetsOf(entity))].jsonData)]
        missing == SelectSeq(EntityOrder, LAMBDA entity : SheetsOf(entity) = {})
        Failed(message) ==
            /\ ret' = [filename |-> file.name, entity |-> "", status |-> "error",
                       error |-> message]
            /\ arg' = arg
        Done(entity, entities) ==
            /\ ret' = [filename |-> file.name, entity |-> entity, status |-> "done"]
            /\ arg' = [e \in Entities |-> arg[e] \/ e \in entities]
    IN  /\ now < MaxEvents
        /\ now' = now + 1
        /\ IF fileExtension \notin {"csv", "xlsx"}
           THEN Failed("Only CSV and XLSX files are supported") /\ UNCHANGED localStorage
           ELSE IF fileExtension = "csv"
           THEN IF Len(data) = 0
                THEN Failed("CSV file is empty or invalid") /\ UNCHANGED localStorage
                ELSE IF entityType = ""
                THEN Failed("Could not determine entity type from CSV headers.")
                     /\ UNCHANGED localStorage
                ELSE IF arg[entityType]
                THEN Failed("Entity type \"" \o entityType \o "\" already uploaded.")
                     /\ UNCHANGED localStorage
                ELSE /\ localStorage' = [localStorage EXCEPT ![entityType] = StoredItem(data)]
                     /\ Done(entityType, {entityType})
           ELSE /\ localStorage' = afterLoop
                /\ IF Len(missing) > 0
                   THEN Failed("Missing required sheets: " \o join(missing, ", "))
                   ELSE Done("All entities", Entities)
        /\ UNCHANGED <<sheets, rules, validationErrors, validationProgress, isLoading,
                       isFixingWithAI, effectPending, fixCall>>

\* The upload page before the dashboard is opened: nothing uploaded in this
\* visit, storage as an earlier visit left it.
InitUpload ==
    /\ sheets = EmptySheets
    /\ rules = <<>>
    /\ validationErrors = <<>>
    /\ validationProgress = 0
    /\ isLoading = TRUE
    /\ isFixingWithAI = FALSE
    /\ localStorage \in InitialStores
    /\ effectPending = FALSE
    /\ fixCall = NoFixCall
    /\ now = 0
    /\ arg = [entity \in Entities |-> FALSE]
    /\ ret = Null

SpecUpload == InitUpload /\ [][\E file \in UploadFiles : processFile(file)]_vars

\* C30: an upload that ends in the error state leaves the three stored record
\* sets upload:clients, upload:workers and upload:tasks as they were when it
\* started.
C30_AtomicOnFailure ==
    [][\A file \in UploadFiles :
          (processFile(file) /\ ret'.status = "error") => localStorage' = localStorage]_vars

=============================================================================
